---------------------------- MODULE Spec2Model ----------------------------
(***************************************************************************)
(* A model of the UnifiedLogReader tracev3 parser:                         *)
(*   - the shared-cache strings (dsc) parser and its range lookup          *)
(*     (src/UnifiedLog/dsc_file.py),                                       *)
(*   - the timesync lookup, the firehose level derivation and the chunk /  *)
(*     sub-chunk / tracepoint loops of the tracev3 parser                  *)
(*     (src/UnifiedLog/tracev3_file.py),                                   *)
(*   - the folder loop of the reader                                       *)
(*     (src/UnifiedLog/UnifiedLogReaderBase.py).                           *)
(*                                                                         *)
(* Python exceptions are modelled by their class name (a string); "none"   *)
(* means that no exception was raised.  Python's None is the string        *)
(* "None", or a record of -1 fields where a record is expected.            *)
(***************************************************************************)
EXTENDS Integers, Sequences, FiniteSets, TLC

VARIABLES
    \* ---- Dsc object (dsc_file.py)
    range_entries,        \* Dsc.range_entries: v_off -> [uuid_index, v_off, data_len]
    range_entry_offsets,  \* Dsc.range_entry_offsets: sorted keys of range_entries
    num_range_entries,    \* Dsc.num_range_entries
    uuid_entries,         \* Dsc.uuid_entries: sequence of [v_off, uuid]
    dsc_result,           \* what Dsc.Parse() did: "unparsed", "True", "False" or the exception it raised
    dsc_is_valid,         \* Dsc._file.is_valid
    dsc_sig_ok,           \* did the file given to Dsc.Parse() start with 'hcsd'?
    find_v,               \* last v_offset given to FindVirtualOffsetEntries (-1: none yet)
    find_result,          \* what that call returned
    \* ---- timesync lookup (tracev3_file.py, _FindClosestTimesyncItemInList)
    ts_items,             \* the ts_items list given to the lookup
    closest_ct,           \* the continuousTime given to the lookup (-1: none yet)
    closest_tsi,          \* the item the lookup returned
    \* ---- level of a firehose tracepoint (tracev3_file.py, lines 496-514)
    lvl_logtype,          \* logtype byte of the tracepoint header
    lvl_record_type,      \* record_type byte of the tracepoint header
    lvl_entry,            \* log_type and signpost flag of the LogEntry built from them
    \* ---- reader (UnifiedLogReaderBase.py, _ReadTraceV3Folder)
    folder_left,          \* directory entries os.listdir has still to hand out
    reader_exc,           \* exception that left _ReadTraceV3Folder ("none": none)
    \* ---- TraceV3.Parse of the file being read
    pc,                   \* "idle": between files; "top", "sub", "tp": at the head of
                          \* the chunk, sub-chunk or tracepoint loop
    parse_result,         \* what Parse returned: "unset", "None", "False", "True",
                          \* or "raised" when an exception left it
    is_valid,             \* self._file.is_valid
    last_cause,           \* why the file was given up ("none": it was not)
    boot_uuid_ts_list,    \* self.boot_uuid_ts_list (<< >>: None or no item)
    catalog,              \* -1: None; else the number of ChunkMetaInfo of the catalog
    meta_chunk_index,
    chunks_left,          \* top-level chunks between pos and the end of the file
    sub_left,             \* sub-chunks left in the data chunk being processed
    fh_continuousTime,    \* continuousTime of the firehose chunk being decoded
    pos2,                 \* cursor of _ParseFirehoseChunkData
    logs_end_offset,
    tp_last,              \* the last call of _ParseFirehoseTracepointData in the
                          \* firehose chunk being decoded
    logs,                 \* the pending list
    batches,              \* the lists log_list_process_func got from this file
    decoded,              \* every record appended to logs for this file, in order
    \* ---- the decoder of a firehose tracepoint and the oversize data
    large_data,           \* TraceV3.large_data: key -> [file, buf]; file is the
                          \* number of the TraceV3 object that stored the payload
    tv_file,              \* TraceV3 objects constructed so far (0: none)
    ov_seen,              \* the oversize chunks parsed so far by this object
    tp_in,                \* the tracepoint last given to the decoder, if that was
                          \* the last thing done
    tp_out,               \* what the decoder made of it
    \* ---- _DecompressChunkData of a 0x600D chunk
    dc_chunk,             \* chunk_data as a sequence of blocks
    dc_pc,                \* "none": no call; "entry", "loop": where the call is;
                          \* "returned"; "raised" when lz4 raised
    comp_start,           \* number of the block at the cursor
    uncompressed,
    last_uncompressed,
    dc_blocks,            \* header, dictionary and output of every block the
                          \* loop has processed
    \* ---- the cache of dsc and uuidtext files
    rc_disk,              \* UUID string -> what the uuidtext folder holds for it
    caches,               \* UnifiedLogReaderHelper._caches
    rc_tv,                \* has _ReadTraceV3File constructed a TraceV3?
    cached_files,         \* TraceV3.cached_files
    FileObjects,          \* catalog.FileObjects: [uuid, kind, from]
    rc_uuids,             \* the UUID strings _ParseMetaChunk read from the catalog so far
    rc_exc,               \* the exception that left ProcessReferencedFile ("none": none)
    \* ---- the optional fields of a firehose tracepoint
    fl_tp,                \* the tracepoint whose fields were read last: flags,
                          \* logtype, record_type, whether the sentinel 0x80000000
                          \* is there and whether the chunk has private strings
    fl_read,              \* the names of the fields read from it, in order
    \* ---- the position counters of the chunk loop of _ParseFileObject
    uncompressed_file_pos,  \* the counter of the position in the uncompressed file
    fr_pos,              \* pos, the position in the file
    fr_before,           \* uncompressed_file_pos at the head of the last turn
    fr_chunk,            \* tag and sizes of the chunk of the last turn
    fr_count,            \* turns of the loop so far
    \* ---- message rendering (tracev3_file.py)
    rm_format,            \* the format string given to RecreateMsgFromFmtStringAndData
    rm_data,              \* the list of data items given to it
    rm_msg,               \* the message it returned
    int_in,               \* the specifier and item given to _handle_integer
    int_out,              \* what _handle_integer returned
    \* ---- alternate uuidtext files of a TraceV3 (tracev3_file.py, lines 629-656)
    alt_disk,             \* UUID string -> does the uuidtext file under it parse?
    other_uuidtext,       \* self.other_uuidtext: UUID string -> the object kept,
                          \* with what its Parse() returned
    alt_parsed,           \* UUID string -> how often a file was opened and parsed
    alt_last,             \* the last tracepoint with a raw alternate UUID: the
                          \* UUID, and the object used for its format string
    alt_count,            \* tracepoints with a raw alternate UUID so far
    \* ---- the cursors of the four loops of a parse (tracev3_file.py)
    lp_pc,               \* the loop the parse is in: top, lz4, sub or tp; returned or raised after it
    lp_file_size,        \* self._file_size
    lp_pos,              \* pos of the chunk loop of _ParseFileObject
    lp_chunk_data_size,  \* chunk_data_size of the chunk of this turn
    lp_data_len,         \* data_len of _DecompressChunkData
    lp_comp_start,       \* comp_start of its block loop
    lp_sub_size,         \* chunk_data_size of ProcessDataChunk
    lp_sub_pos,          \* pos of its loop, at the head of the turn
    lp_data_size,        \* data_size of the sub-chunk of this turn
    lp_logs_end,         \* logs_end_offset of _ParseFirehoseChunkData
    lp_pos2,             \* pos2 of its loop
    lp_zero,             \* the loops that have read a size field of 0
    lp_turns             \* turns of the four loops so far

dscVars == <<range_entries, range_entry_offsets, num_range_entries,
             uuid_entries, dsc_result, dsc_is_valid, dsc_sig_ok, find_v,
             find_result>>

tsVars  == <<ts_items, closest_ct, closest_tsi>>
lvlVars == <<lvl_logtype, lvl_record_type, lvl_entry>>

ctlVars == <<pc, parse_result, is_valid, last_cause, reader_exc>>
trVars  == <<folder_left, ctlVars, boot_uuid_ts_list, catalog, meta_chunk_index,
             chunks_left, sub_left, fh_continuousTime, pos2, logs_end_offset,
             tp_last, logs, batches, decoded>>

tpVars == <<large_data, tv_file, ov_seen, tp_in, tp_out>>
dcVars == <<dc_chunk, dc_pc, comp_start, uncompressed, last_uncompressed, dc_blocks>>
rcVars == <<rc_disk, caches, rc_tv, cached_files, FileObjects, rc_uuids, rc_exc>>

flVars == <<fl_tp, fl_read>>

frVars == <<uncompressed_file_pos, fr_pos, fr_before, fr_chunk, fr_count>>

rmVars == <<rm_format, rm_data, rm_msg, int_in, int_out>>

ouVars == <<alt_disk, other_uuidtext, alt_parsed, alt_last, alt_count>>

lpVars == <<lp_pc, lp_file_size, lp_pos, lp_chunk_data_size, lp_data_len, lp_comp_start, lp_sub_size, lp_sub_pos, lp_data_size, lp_logs_end, lp_pos2, lp_zero, lp_turns>>

vars == <<dscVars, tsVars, lvlVars, trVars, tpVars, dcVars, rcVars, flVars, frVars, rmVars, ouVars, lpVars>>

\* What the operations of one part leave alone
notDsc == <<tsVars, lvlVars, trVars, tpVars, dcVars, rcVars, flVars, frVars, rmVars, ouVars, lpVars>>
notTs  == <<dscVars, lvlVars, trVars, tpVars, dcVars, rcVars, flVars, frVars, rmVars, ouVars, lpVars>>
notLvl == <<dscVars, tsVars, trVars, tpVars, dcVars, rcVars, flVars, frVars, rmVars, ouVars, lpVars>>
notTr  == <<dscVars, tsVars, lvlVars, tpVars, dcVars, rcVars, flVars, frVars, rmVars, ouVars, lpVars>>
notTp  == <<dscVars, tsVars, lvlVars, trVars, dcVars, rcVars, flVars, frVars, rmVars, ouVars, lpVars>>
notDc  == <<dscVars, tsVars, lvlVars, trVars, tpVars, rcVars, flVars, frVars, rmVars, ouVars, lpVars>>
notRc  == <<dscVars, tsVars, lvlVars, trVars, tpVars, dcVars, flVars, frVars, rmVars, ouVars, lpVars>>
notFl  == <<dscVars, tsVars, lvlVars, trVars, tpVars, dcVars, rcVars, frVars, rmVars, ouVars, lpVars>>
notFr  == <<dscVars, tsVars, lvlVars, trVars, tpVars, dcVars, rcVars, flVars, rmVars, ouVars, lpVars>>
notRm  == <<dscVars, tsVars, lvlVars, trVars, tpVars, dcVars, rcVars, flVars, frVars, ouVars, lpVars>>
notOu  == <<dscVars, tsVars, lvlVars, trVars, tpVars, dcVars, rcVars, flVars, frVars, rmVars, lpVars>>
notLp  == <<dscVars, tsVars, lvlVars, trVars, tpVars, dcVars, rcVars, flVars, frVars, rmVars, ouVars>>

-----------------------------------------------------------------------------
(* Bounds of the model.                                                    *)

MaxRanges == 2     \* range records in a dsc file
MaxVOff   == 2     \* largest virtual offset of a range record
MaxLen    == 2     \* largest data_len of a range record
MaxTsItems == 3    \* items of a timesync list
MaxCt     == 3     \* largest continuous time of a timesync item
MaxRecordType == 31  \* largest record_type byte tried
MantissaBits == 5  \* significant bits of a float (a CPython float has 53)
MaxFiles  == 2     \* directory entries of the tracev3 folder
MaxChunks == 3     \* top-level chunks after the header chunk of a file
MaxSubChunks == 2  \* sub-chunks of a decompressed data chunk
MaxRecords == 3    \* records decoded from one file
BatchLimit == 1    \* pending records above which a batch is flushed (100000 in
                   \* the code, line 376)
CtBits == 2        \* bits of a continuous time (64 in the file format)
MaxOversize == 2   \* oversize chunks parsed from one file
MaxTraceFiles == 2 \* TraceV3 objects the reader constructs
MaxLogType == 255  \* logtype is an unsigned byte ('B' of the struct format)

-----------------------------------------------------------------------------
(* Helpers.                                                                *)

Min(S) == CHOOSE x \in S : \A y \in S : x <= y

RECURSIVE SortedSeq(_)
\* sorted(keys): the elements of a finite set of integers in increasing order
SortedSeq(S) == IF S = {} THEN <<>>
                ELSE <<Min(S)>> \o SortedSeq(S \ {Min(S)})

\* All sequences over S of length 0..n
SeqsUpTo(S, n) == UNION { [1..k -> S] : k \in 0..n }

-----------------------------------------------------------------------------
(* dsc_file.py                                                             *)

NoRangeEntry == [uuid_index |-> -1, v_off |-> -1, data_len |-> -1]
NoUuidEntry  == [v_off |-> -1, uuid |-> -1]

\* A range record of a dsc file.  data_offset (the place of the strings in
\* the file) plays no part in the lookup and is left out.
RangeRecords == [uuid_index : 0..1, v_off : 0..MaxVOff, data_len : 0..MaxLen]

\* The uuid table of a dsc file: the number of entries the header announces
\* and the v_off of each record present (a record's uuid is its place in
\* the file).  The last table is cut short by the end of the file.
UuidTables == { [n |-> 1, recs |-> <<0>>],
                [n |-> 2, recs |-> <<0, 2>>],
                [n |-> 2, recs |-> <<1, 1>>],
                [n |-> 2, recs |-> <<0>>] }

RECURSIVE ParseRangeEntries(_, _, _, _)
\* The loop of lines 71-90 for major versions 1 and 2: entries is
\* self.range_entries, i the next record of the file.  A read past the end
\* of the file gives too few bytes for struct.unpack.
ParseRangeEntries(recs, i, n, entries) ==
    IF Cardinality(DOMAIN entries) >= n THEN [exc |-> "none", entries |-> entries]
    ELSE IF i > Len(recs) THEN [exc |-> "struct.error", entries |-> entries]
    ELSE IF recs[i].v_off \in DOMAIN entries
         THEN [exc |-> "ValueError", entries |-> entries]
    ELSE ParseRangeEntries(recs, i + 1, n, (recs[i].v_off :> recs[i]) @@ entries)

RECURSIVE ParseUuidEntries(_, _, _, _)
\* The loop of lines 96-131: the entry is appended before its v_off is
\* checked against uuid_entry_dict.
ParseUuidEntries(recs, i, n, entries) ==
    IF Len(entries) >= n THEN [exc |-> "none", entries |-> entries]
    ELSE IF i > Len(recs) THEN [exc |-> "struct.error", entries |-> entries]
    ELSE LET e == [v_off |-> recs[i], uuid |-> i]
         IN  IF \E k \in 1..Len(entries) : entries[k].v_off = recs[i]
             THEN [exc |-> "ValueError", entries |-> Append(entries, e)]
             ELSE ParseUuidEntries(recs, i + 1, n, Append(entries, e))

\* Dsc._ParseFileObject on a file with the signature and version read from
\* its header: the outcome and the attributes of the object afterwards.
\* ret is the value returned when nothing is raised.
ParseDscFileObject(sig_ok, major, nranges, ranges, utab) ==
    LET untouched == [range_entries |-> << >>, range_entry_offsets |-> << >>,
                      num_range_entries |-> 0, uuid_entries |-> << >>]
    IN
    IF ~sig_ok
    THEN \* line 57 uses binascii, which dsc_file.py never imports
         [exc |-> "NameError", ret |-> "None"] @@ untouched
    ELSE IF major > 2
    THEN [exc |-> "UserWarning", ret |-> "None"] @@ untouched
    ELSE
      LET r == ParseRangeEntries(ranges, 1, nranges, << >>)
      IN  IF r.exc # "none"
          THEN [exc |-> r.exc, ret |-> "None", range_entries |-> r.entries,
                range_entry_offsets |-> << >>, num_range_entries |-> 0,
                uuid_entries |-> << >>]
          ELSE
            LET offs == SortedSeq(DOMAIN r.entries)
                u    == ParseUuidEntries(utab.recs, 1, utab.n, << >>)
            IN  [exc |-> u.exc,
                 ret |-> IF u.exc = "none" THEN "True" ELSE "None",
                 range_entries |-> r.entries,
                 range_entry_offsets |-> offs,
                 num_range_entries |-> Len(offs),
                 uuid_entries |-> u.entries]

\* The except clause of Dsc.Parse (line 251).
DscParseCatches(exc) == exc \in {"IOError", "OSError", "struct.error"}

RECURSIVE bisect_right(_, _, _, _)
\* bisect.bisect_right(a, x, lo, hi) as the standard library computes it
bisect_right(a, x, lo, hi) ==
    IF lo >= hi THEN lo
    ELSE LET mid == (lo + hi) \div 2
         IN  IF x < a[mid + 1]      \* a[mid] of the 0-based Python list
             THEN bisect_right(a, x, lo, mid)
             ELSE bisect_right(a, x, mid + 1, hi)

\* Dsc.FindVirtualOffsetEntries(v_offset) on the object's present state.
FindVirtualOffsetEntries(v_offset) ==
    LET pos == bisect_right(range_entry_offsets, v_offset, 0, num_range_entries)
        none == [exc |-> "none", range_entry |-> NoRangeEntry, uuid_entry |-> NoUuidEntry]
    IN  IF pos > 0
        THEN LET a == range_entries[range_entry_offsets[pos]]
             IN  IF a.v_off + a.data_len > v_offset
                 THEN IF a.uuid_index + 1 \in 1..Len(uuid_entries)
                      THEN [exc |-> "none", range_entry |-> a,
                            uuid_entry |-> uuid_entries[a.uuid_index + 1]]
                      ELSE [exc |-> "IndexError", range_entry |-> NoRangeEntry,
                            uuid_entry |-> NoUuidEntry]
                 ELSE none
        ELSE none

\* Dsc.__init__
DscInit ==
    /\ range_entries = << >>
    /\ range_entry_offsets = << >>
    /\ num_range_entries = 0
    /\ uuid_entries = << >>
    /\ dsc_result = "unparsed"
    /\ dsc_is_valid = TRUE
    /\ dsc_sig_ok = TRUE
    /\ find_v = -1
    /\ find_result = [exc |-> "none", range_entry |-> NoRangeEntry, uuid_entry |-> NoUuidEntry]

\* Dsc.Parse() on a freshly constructed object, the file drawn from the
\* bounded set of dsc files.  The records of a file are read only when its
\* signature and version are accepted.
DscParse ==
    /\ dsc_result = "unparsed"
    /\ \E sig_ok \in BOOLEAN, major \in 1..3 :
         \E ranges \in (IF sig_ok /\ major <= 2 THEN SeqsUpTo(RangeRecords, MaxRanges) ELSE {<< >>}),
            utab \in (IF sig_ok /\ major <= 2 THEN UuidTables ELSE {[n |-> 1, recs |-> <<0>>]}) :
           \E nranges \in {Len(ranges), Len(ranges) + 1} :
             LET p == ParseDscFileObject(sig_ok, major, nranges, ranges, utab)
                 result == IF p.exc = "none" THEN p.ret
                           ELSE IF DscParseCatches(p.exc) THEN "False"
                           ELSE p.exc      \* the exception leaves Parse
             IN  /\ dsc_sig_ok' = sig_ok
                 /\ range_entries' = p.range_entries
                 /\ range_entry_offsets' = p.range_entry_offsets
                 /\ num_range_entries' = p.num_range_entries
                 /\ uuid_entries' = p.uuid_entries
                 /\ dsc_result' = result
                 /\ dsc_is_valid' = IF result \in {"False", "None"} THEN FALSE ELSE dsc_is_valid
    /\ UNCHANGED <<find_v, find_result, notDsc>>

\* A caller looks an offset up (FindVirtualOffsetEntries).
DscFind ==
    /\ dsc_result # "unparsed"
    /\ \E v \in 0..(MaxVOff + MaxLen) :
         /\ find_v' = v
         /\ find_result' = FindVirtualOffsetEntries(v)
    /\ UNCHANGED <<range_entries, range_entry_offsets, num_range_entries,
                   uuid_entries, dsc_result, dsc_is_valid, dsc_sig_ok, notDsc>>

-----------------------------------------------------------------------------
(* tracev3_file.py: the timesync lookup                                    *)

NoTsItem == [continuousTime |-> -1, time_stamp |-> -1,
             ts_numerator |-> 0, ts_denominator |-> 0]

\* The i-th item of a timesync list, with continuous time c.  The stamps
\* and rates differ from item to item, so that items are told apart.
TsItem(i, c) == [continuousTime |-> c, time_stamp |-> 100 * i,
                 ts_numerator |-> i, ts_denominator |-> 2]

\* Timesync lists as the timesync reader leaves them: items in
\* non-decreasing continuous time (possibly none).
SortedTsLists ==
    { [i \in DOMAIN cts |-> TsItem(i, cts[i])] :
        cts \in { s \in SeqsUpTo(0..MaxCt, MaxTsItems) :
                    \A i \in 1..(Len(s) - 1) : s[i] <= s[i + 1] } }

RECURSIVE ClosestLoopStopsAtEqual(_, _, _, _)
\* ClosestLoop with the comparison of line 156 written >= instead of >
ClosestLoopStopsAtEqual(items, i, closest_so_far, continuousTime) ==
    IF i > Len(items) THEN closest_so_far
    ELSE IF items[i].continuousTime >= continuousTime THEN closest_so_far
    ELSE ClosestLoopStopsAtEqual(items, i + 1, items[i], continuousTime)

RECURSIVE ClosestLoop(_, _, _, _)
\* The for loop of lines 155-159
ClosestLoop(items, i, closest_so_far, continuousTime) ==
    IF i > Len(items) THEN closest_so_far
    ELSE IF items[i].continuousTime > continuousTime THEN closest_so_far
    ELSE ClosestLoop(items, i + 1, items[i], continuousTime)

\* TraceV3._FindClosestTimesyncItemInList; an empty list stands for None too
FindClosestTimesyncItemInList(items, continuousTime) ==
    IF items = << >> THEN NoTsItem
    ELSE ClosestLoop(items, 1, items[1], continuousTime)

\* Python floats.  A float is kept as the fraction num/den it denotes, den a
\* power of two; every operation rounds its exact result to MantissaBits
\* significant bits, ties to the even mantissa (IEEE 754, which CPython's
\* float follows with 53 bits).

RECURSIVE Pow2(_)
Pow2(k) == IF k = 0 THEN 1 ELSE 2 * Pow2(k - 1)

Abs(x) == IF x < 0 THEN -x ELSE x

RECURSIVE Reduce2(_, _)
\* num/den with the common factors 2 removed
Reduce2(num, den) ==
    IF den > 1 /\ num % 2 = 0 THEN Reduce2(num \div 2, den \div 2)
    ELSE [num |-> num, den |-> den]

\* a/d (a >= 0, d > 0) rounded to the nearest integer, ties to even
RoundHalfEven(a, d) ==
    LET q == a \div d
        r == a % d
    IN  IF 2 * r < d THEN q
        ELSE IF 2 * r > d THEN q + 1
        ELSE IF q % 2 = 0 THEN q ELSE q + 1

RECURSIVE FlRoundPos(_, _, _)
\* a/d * 2^e (a > 0) rounded to MantissaBits significant bits
FlRoundPos(a, d, e) ==
    IF a >= d * Pow2(MantissaBits) THEN FlRoundPos(a, 2 * d, e + 1)
    ELSE IF a < d * Pow2(MantissaBits - 1) THEN FlRoundPos(2 * a, d, e - 1)
    ELSE LET m == RoundHalfEven(a, d)
         IN  IF e >= 0 THEN [num |-> m * Pow2(e), den |-> 1]
             ELSE Reduce2(m, Pow2(-e))

\* The float nearest to num/den (den > 0)
FlRound(num, den) ==
    IF num = 0 THEN [num |-> 0, den |-> 1]
    ELSE LET r == FlRoundPos(Abs(num), den, 0)
         IN  IF num < 0 THEN [num |-> -r.num, den |-> r.den] ELSE r

\* float(n) of an int, and the float operators *, / and +
FlFromInt(n) == FlRound(n, 1)
FlMul(x, y) == FlRound(x.num * y.num, x.den * y.den)
FlDiv(x, y) == IF y.num < 0 THEN FlRound(-(x.num * y.den), x.den * (-y.num))
               ELSE FlRound(x.num * y.den, x.den * y.num)
FlAdd(x, y) == FlRound(x.num * y.den + y.num * x.den, x.den * y.den)

\* Line 1071, ts being an item:
\*   ts.time_stamp + (ct - ts.continuousTime) * (1.0 * ts.ts_numerator)
\*                                            / ts.ts_denominator
\* Each int operand becomes a float when it meets a float.
time_from_item(ts, ct) ==
    FlAdd(FlFromInt(ts.time_stamp),
          FlDiv(FlMul(FlFromInt(ct - ts.continuousTime),
                      FlMul(FlFromInt(1), FlFromInt(ts.ts_numerator))),
                FlFromInt(ts.ts_denominator)))

\* A caller looks a continuous time up in a list.
TsInit ==
    /\ ts_items \in SortedTsLists
    /\ closest_ct = -1
    /\ closest_tsi = NoTsItem

FindClosest ==
    /\ \E ct \in 0..(MaxCt + 1) :
         /\ closest_ct' = ct
         /\ closest_tsi' = FindClosestTimesyncItemInList(ts_items, ct)
    /\ UNCHANGED <<ts_items, notTs>>

TsIdle == ts_items = << >> /\ closest_ct = -1 /\ closest_tsi = NoTsItem

-----------------------------------------------------------------------------
(* tracev3_file.py: the level of a firehose tracepoint                     *)

RECURSIVE BitAnd(_, _)
\* a & b for non-negative integers
BitAnd(a, b) == IF a = 0 \/ b = 0 THEN 0
                ELSE (a % 2) * (b % 2) + 2 * BitAnd(a \div 2, b \div 2)

\* FirehoseLogType with record_type compared unmasked (line 509 without & 0x0F)
FirehoseLogTypeUnmasked(logtype, record_type) ==
    IF BitAnd(logtype, 128) # 0
    THEN [log_type |-> "Default", is_signpost |-> TRUE]
    ELSE IF logtype = 1
    THEN IF record_type = 2
         THEN [log_type |-> "Activity", is_signpost |-> FALSE]
         ELSE [log_type |-> "Info", is_signpost |-> FALSE]
    ELSE IF logtype = 2  THEN [log_type |-> "Debug", is_signpost |-> FALSE]
    ELSE IF logtype = 16 THEN [log_type |-> "Error", is_signpost |-> FALSE]
    ELSE IF logtype = 17 THEN [log_type |-> "Fault", is_signpost |-> FALSE]
    ELSE [log_type |-> "Default", is_signpost |-> FALSE]

\* Lines 496-514: log_type and is_signpost from the header bytes
FirehoseLogType(logtype, record_type) ==
    IF BitAnd(logtype, 128) # 0
    THEN [log_type |-> "Default", is_signpost |-> TRUE]
    ELSE IF logtype = 1
    THEN IF BitAnd(record_type, 15) = 2
         THEN [log_type |-> "Activity", is_signpost |-> FALSE]
         ELSE [log_type |-> "Info", is_signpost |-> FALSE]
    ELSE IF logtype = 2  THEN [log_type |-> "Debug", is_signpost |-> FALSE]
    ELSE IF logtype = 16 THEN [log_type |-> "Error", is_signpost |-> FALSE]
    ELSE IF logtype = 17 THEN [log_type |-> "Fault", is_signpost |-> FALSE]
    ELSE [log_type |-> "Default", is_signpost |-> FALSE]

NoEntry == [log_type |-> "none", is_signpost |-> FALSE]

LvlInit ==
    /\ lvl_logtype \in 0..MaxLogType
    /\ lvl_record_type \in 0..MaxRecordType
    /\ lvl_entry = NoEntry

\* The tracepoint is decoded and its LogEntry built (lines 767-773 pass
\* log_type on unchanged).
DeriveLevel ==
    /\ lvl_entry = NoEntry
    /\ lvl_entry' = FirehoseLogType(lvl_logtype, lvl_record_type)
    /\ UNCHANGED <<lvl_logtype, lvl_record_type, notLvl>>

LvlIdle == lvl_logtype = 0 /\ lvl_record_type = 0 /\ lvl_entry = NoEntry

-----------------------------------------------------------------------------
(* tracev3_file.py and UnifiedLogReaderBase.py: reading a folder of        *)
(* tracev3 files.                                                          *)

\* The timesync list the reader holds (self._ts_list, filled by
\* UnifiedLogLib.ReadTimesyncFolder): boot A with two items in increasing
\* continuous time, boot B without items.  No other boot is known.
TimesyncList ==
    << [boot_uuid |-> "A",
        items |-> << [continuousTime |-> 1, time_stamp |-> 40,
                      ts_numerator |-> 1, ts_denominator |-> 1],
                     [continuousTime |-> 2, time_stamp |-> 45,
                      ts_numerator |-> 1, ts_denominator |-> 3] >>],
       [boot_uuid |-> "B", items |-> << >>] >>

\* system_boot_uuid values a file header may carry ("None": no such item)
HeaderBoots == {"A", "B", "X", "None"}

RECURSIVE GetBootUuidTimeSyncListFrom(_, _, _)
GetBootUuidTimeSyncListFrom(ts_list, i, uuid) ==
    IF i > Len(ts_list) THEN "None"
    ELSE IF ts_list[i].boot_uuid = uuid THEN ts_list[i].items
    ELSE GetBootUuidTimeSyncListFrom(ts_list, i + 1, uuid)

\* TraceV3._GetBootUuidTimeSyncList
GetBootUuidTimeSyncList(ts_list, uuid) ==
    GetBootUuidTimeSyncListFrom(ts_list, 1, uuid)

\* The except clause of TraceV3.Parse (line 1699)
ParseCatches(exc) ==
    exc \in {"AttributeError", "IOError", "OSError", "ValueError", "struct.error"}

\* The except clauses that close the try blocks of the tracepoint and dump
\* decoders: these three classes are raised again, any other is logged.
Reraised(exc) == exc \in {"ImportError", "NameError", "UnboundLocalError"}

\* Exceptions lz4.block.decompress raises on bad input: LZ4BlockError, or
\* ValueError with an lz4 package that predates it.
Lz4Errors == {"LZ4BlockError", "ValueError"}

\* Exceptions that may come up inside a decoder's try block ("none": none)
TryExcs == {"none", "KeyError", "NameError"}

\* Numbers of ChunkMetaInfo entries of a catalog
CatalogSizes == {1, 2}

\* continuousTime values of a firehose chunk header, ct_rel values of a
\* tracepoint header, ct values of a statedump or simpledump chunk
BaseTimes == {0, 1}
CtRels == {0, 1}
DumpTimes == {1}

\* log_data_len values of a tracepoint header
LogDataLens == {0, 4}

\* logs_end_offset (offset_strings + 16) values of a firehose chunk
LogsEndOffsets == {32, 80}

NoTracepoint == [len |-> -1, exc |-> "none", where |-> "none"]

\* TracepointDataSize without the announced log_data_len
TracepointDataSizeOfHeader(log_data_len) == 24

\* The value _ParseFirehoseTracepointData returns as tracepoint_data_size
\* (line 782)
TracepointDataSize(log_data_len) == 24 + log_data_len

\* Lines 418, 425 and 433-434: the cursor after a tracepoint of the given size
NextPos2(p, tracepoint_data_size) ==
    LET start_skew == p % 8
        q == p + tracepoint_data_size
    IN  IF (q - start_skew) % 8 # 0 THEN q + 8 - ((q - start_skew) % 8) ELSE q

\* AppendLog putting the entry in front (logs.insert(0, log_entry))
AppendLogInFront(l, log_entry) == <<log_entry>> \o l

\* logs.append(log_entry)
AppendLog(l, log_entry) == Append(l, log_entry)

\* The LogEntry of the n-th record decoded from the file
LogEntry(n, kind, ct, time) == [seq |-> n, kind |-> kind, ct |-> ct, time |-> time]

\* FlushAfterChunk with >= for the > of line 376
FlushAfterChunkAtLimit(l) == Len(l) >= BatchLimit

\* Line 376: is the pending list handed over after a top-level chunk?
FlushAfterChunk(l) == Len(l) > BatchLimit

\* Line 381: is the pending list handed over at end of file?
FlushAtEnd(l) == Len(l) > 0

TrInit ==
    /\ folder_left = MaxFiles
    /\ reader_exc = "none"
    /\ pc = "idle"
    /\ parse_result = "unset"
    /\ is_valid = TRUE
    /\ last_cause = "none"
    /\ boot_uuid_ts_list = << >>
    /\ catalog = -1
    /\ meta_chunk_index = 0
    /\ chunks_left = 0
    /\ sub_left = 0
    /\ fh_continuousTime = 0
    /\ pos2 = 0
    /\ logs_end_offset = 0
    /\ tp_last = NoTracepoint
    /\ logs = << >>
    /\ batches = << >>
    /\ decoded = << >>

\* No folder is read
TrIdle ==
    /\ folder_left = 0
    /\ reader_exc = "none"
    /\ pc = "idle"
    /\ parse_result = "unset"
    /\ is_valid = TRUE
    /\ last_cause = "none"
    /\ boot_uuid_ts_list = << >>
    /\ catalog = -1
    /\ meta_chunk_index = 0
    /\ chunks_left = 0
    /\ sub_left = 0
    /\ fh_continuousTime = 0
    /\ pos2 = 0
    /\ logs_end_offset = 0
    /\ tp_last = NoTracepoint
    /\ logs = << >>
    /\ batches = << >>
    /\ decoded = << >>

\* An exception leaves _ParseFileObject, whose locals are gone with it (the
\* pending list too, which the model keeps to tell what was pending): Parse
\* catches it (lines 1699-1704) or lets it pass, and then it leaves
\* _ReadTraceV3File and _ReadTraceV3Folder too, which have no handler.
Abort(exc, cause) ==
    /\ pc' = "idle"
    /\ last_cause' = cause
    /\ IF ParseCatches(exc)
       THEN parse_result' = "False" /\ is_valid' = FALSE /\ reader_exc' = reader_exc
       ELSE parse_result' = "raised" /\ is_valid' = is_valid /\ reader_exc' = exc
    /\ catalog' = -1
    /\ meta_chunk_index' = 0
    /\ chunks_left' = 0
    /\ sub_left' = 0
    /\ fh_continuousTime' = 0
    /\ pos2' = 0
    /\ logs_end_offset' = 0
    /\ UNCHANGED <<logs, batches, decoded>>

\* The parse goes on at loop head p
Continue(p) ==
    /\ pc' = p
    /\ UNCHANGED <<parse_result, is_valid, last_cause, reader_exc>>

chunkLocals == <<catalog, meta_chunk_index, chunks_left>>
fhLocals == <<fh_continuousTime, pos2, logs_end_offset>>

fileVars == <<boot_uuid_ts_list, catalog, meta_chunk_index, chunks_left,
              sub_left, fh_continuousTime, pos2, logs_end_offset, tp_last,
              logs, batches, decoded>>

\* _ReadTraceV3Folder, lines 91-100: a directory entry that is not read (not
\* a .tracev3 name, a ._ name, or an empty file).  The entries of a
\* sub-folder count as entries of the folder.
SkipEntry ==
    /\ pc = "idle" /\ reader_exc = "none" /\ folder_left > 0
    /\ folder_left' = folder_left - 1
    /\ UNCHANGED <<ctlVars, fileVars, notTr>>

\* _ReadTraceV3File and TraceV3.Parse up to the chunk loop of
\* _ParseFileObject (lines 1690-1697 and 309-338), on a new TraceV3 object.
StartFile ==
    /\ pc = "idle" /\ reader_exc = "none" /\ folder_left > 0
    /\ folder_left' = folder_left - 1
    /\ catalog' = -1
    /\ meta_chunk_index' = 0
    /\ sub_left' = 0
    /\ fh_continuousTime' = 0
    /\ pos2' = 0
    /\ logs_end_offset' = 0
    /\ tp_last' = NoTracepoint
    /\ logs' = << >>
    /\ batches' = << >>
    /\ decoded' = << >>
    /\ \E how \in {"noopen", "tag", "subtag", "short", "ok"} :
         \E boot \in (IF how = "ok" THEN HeaderBoots ELSE {"None"}),
            nchunks \in (IF how = "ok" THEN 0..MaxChunks ELSE {0}) :
           LET lst == GetBootUuidTimeSyncList(TimesyncList, boot)
               \* what is raised before the chunk loop, and why
               exc == CASE how \in {"tag", "subtag"} -> "ValueError"    \* lines 313-321
                        [] how = "short" -> "struct.error"              \* lines 309-324
                        [] how = "ok" /\ boot # "None" /\ lst = "None"
                                         -> "ValueError"                \* lines 326-331
                        [] OTHER -> "none"
               cause == CASE how = "noopen" -> "open"
                          [] how = "tag" -> "tag"
                          [] how = "subtag" -> "subtag"
                          [] how = "short" -> "header"
                          [] exc # "none" -> "timesync"
                          [] OTHER -> "none"
           IN  /\ last_cause' = cause
               /\ IF how = "noopen"
                  THEN \* lines 1693-1695; VirtualFile.open may clear is_valid
                       /\ pc' = "idle" /\ parse_result' = "False"
                       /\ is_valid' \in BOOLEAN
                       /\ reader_exc' = reader_exc
                  ELSE IF exc # "none"
                  THEN /\ pc' = "idle"
                       /\ IF ParseCatches(exc)
                          THEN /\ parse_result' = "False" /\ is_valid' = FALSE
                               /\ reader_exc' = reader_exc
                          ELSE /\ parse_result' = "raised" /\ is_valid' = TRUE
                               /\ reader_exc' = exc
                  ELSE /\ pc' = "top" /\ parse_result' = "unset"
                       /\ is_valid' = TRUE /\ reader_exc' = reader_exc
               /\ IF cause = "none"
                  THEN /\ boot_uuid_ts_list' = (IF boot = "None" THEN << >> ELSE lst)
                       /\ chunks_left' = nchunks
                  ELSE /\ boot_uuid_ts_list' = << >>
                       /\ chunks_left' = 0
    /\ UNCHANGED notTr

\* Lines 376-378 at the end of an iteration of the chunk loop
EndOfChunk(l) ==
    /\ IF FlushAfterChunk(l)
       THEN /\ batches' = Append(batches, [recs |-> l, at |-> "chunk"])
            /\ logs' = << >>
       ELSE /\ batches' = batches
            /\ logs' = l
    /\ chunks_left' = chunks_left - 1

\* Lines 340-378: an iteration of the chunk loop, up to the call of
\* ProcessDataChunk for a compressed chunk (lines 1598-1601), to its end for
\* any other chunk.
TopChunk ==
    /\ pc = "top" /\ chunks_left > 0
    /\ \E kind \in {"short", "metadata", "compressed", "other"} :
         CASE kind = "short" ->
                Abort("struct.error", "chunk")
           [] kind = "metadata" ->
                /\ \E n \in CatalogSizes : catalog' = n
                /\ meta_chunk_index' = 0
                /\ EndOfChunk(logs)
                /\ Continue("top")
                /\ UNCHANGED <<sub_left, fhLocals, decoded>>
           [] kind = "other" ->
                /\ EndOfChunk(logs)
                /\ Continue("top")
                /\ UNCHANGED <<catalog, meta_chunk_index, sub_left, fhLocals, decoded>>
           [] kind = "compressed" ->
                \E d \in {"ok", "unknown", "raise"} :
                     IF d = "raise" THEN
                         \E e \in Lz4Errors \cup {"struct.error"} :
                             Abort(e, "decompress")
                     ELSE IF catalog = -1 THEN
                         \* catalog.ChunkMetaInfo of None (line 1601)
                         Abort("AttributeError", "chunk")
                     ELSE IF meta_chunk_index >= catalog THEN
                         Abort("IndexError", "chunk")
                     ELSE
                         \* an unknown compression type gives no data
                         \E nsub \in (IF d = "unknown" THEN {0} ELSE 0..MaxSubChunks) :
                             /\ sub_left' = nsub
                             /\ Continue("sub")
                             /\ UNCHANGED <<chunkLocals, fhLocals, logs, batches, decoded>>
    /\ UNCHANGED <<folder_left, boot_uuid_ts_list, tp_last, notTr>>

NoTime == [num |-> 0, den |-> 0]

\* TraceV3.time_from_continuoustime(ct) (lines 1068-1071): ts is None when
\* the list is None or empty, and ts.time_stamp then raises AttributeError.
time_from_continuoustime(items, ct) ==
    LET ts == FindClosestTimesyncItemInList(items, ct)
    IN  IF ts = NoTsItem
        THEN [exc |-> "AttributeError", time |-> NoTime]
        ELSE [exc |-> "none", time |-> time_from_item(ts, ct)]

\* Lines 1602-1653: an iteration of the loop of ProcessDataChunk, up to the
\* tracepoint loop for a firehose sub-chunk, to its end for any other.
SubChunk ==
    /\ pc = "sub" /\ sub_left > 0
    /\ \E tag \in {"short", "firehose", "oversize", "statedump", "simpledump", "unknown"},
          proc_found \in BOOLEAN :
         IF tag = "short" THEN
             Abort("struct.error", "chunk")
         ELSE IF ~proc_found THEN
             \* lines 1610-1621: the branch of "if not proc_info" moves pos
             \* and has no continue; proc_info.pid with proc_info None
             Abort("AttributeError", "proc_info")
         ELSE IF tag = "firehose" THEN
             \* lines 399-415
             \E short \in BOOLEAN :
                 IF short THEN
                     Abort("struct.error", "chunk")
                 ELSE
                     \E base \in BaseTimes, e \in LogsEndOffsets :
                         /\ fh_continuousTime' = base
                         /\ logs_end_offset' = e
                         /\ pos2' = 32
                         /\ Continue("tp")
                         /\ UNCHANGED <<chunkLocals, sub_left, logs, batches, decoded>>
         ELSE IF tag \in {"statedump", "simpledump"} THEN
             \E short \in BOOLEAN :
                 IF short /\ tag = "statedump" THEN
                     \* lines 993-995 are outside the try block
                     Abort("struct.error", "chunk")
                 ELSE IF short THEN
                     \* _ParseSimpleDumpData unpacks its header inside the
                     \* try block: logged, no record
                     /\ sub_left' = sub_left - 1
                     /\ Continue("sub")
                     /\ UNCHANGED <<chunkLocals, fhLocals, logs, batches, decoded>>
                 ELSE
                     \E ct \in DumpTimes,
                        exc \in (IF Len(decoded) < MaxRecords THEN TryExcs
                                 ELSE TryExcs \ {"none"}) :
                         LET t == time_from_continuoustime(boot_uuid_ts_list, ct)
                             \* what comes up in the try block: the time is
                             \* computed last in _ParseStateChunkData, first
                             \* (after the header) in _ParseSimpleDumpData
                             raised == IF tag = "statedump"
                                       THEN (IF exc # "none" THEN exc ELSE t.exc)
                                       ELSE (IF t.exc # "none" THEN t.exc ELSE exc)
                             entry == LogEntry(Len(decoded) + 1, "dump", ct, t.time)
                         IN  IF Reraised(raised) THEN
                                 Abort(raised, "chunk")
                             ELSE
                                 /\ IF raised = "none"
                                    THEN /\ logs' = AppendLog(logs, entry)
                                         /\ decoded' = Append(decoded, entry)
                                    ELSE UNCHANGED <<logs, decoded>>
                                 /\ sub_left' = sub_left - 1
                                 /\ Continue("sub")
                                 /\ UNCHANGED <<chunkLocals, fhLocals, batches>>
         ELSE
             /\ sub_left' = sub_left - 1
             /\ Continue("sub")
             /\ UNCHANGED <<chunkLocals, fhLocals, logs, batches, decoded>>
    /\ UNCHANGED <<folder_left, boot_uuid_ts_list, tp_last, notTr>>

\* Lines 416-436 with _ParseFirehoseTracepointData (lines 460-782): an
\* iteration of the tracepoint loop.
Tracepoint ==
    /\ pc = "tp" /\ pos2 < logs_end_offset
    /\ \E hdr_ok \in BOOLEAN :
         IF ~hdr_ok THEN
             \* line 462: fewer than 24 bytes are left
             /\ tp_last' = [len |-> -1, exc |-> "struct.error", where |-> "header"]
             /\ Abort("struct.error", "tracepoint")
         ELSE
             \E ct_rel \in CtRels, log_data_len \in LogDataLens :
               LET ct == fh_continuousTime + ct_rel
                   t == time_from_continuoustime(boot_uuid_ts_list, ct)
                   entry == LogEntry(Len(decoded) + 1, "firehose", ct, t.time)
                   call(e, w) == [len |-> log_data_len, exc |-> e, where |-> w]
               IN  IF t.exc # "none" THEN
                       \* line 469, before the try block
                       /\ tp_last' = call(t.exc, "time")
                       /\ Abort(t.exc, "tracepoint")
                   ELSE
                       \E exc \in (IF Len(decoded) < MaxRecords THEN TryExcs
                                   ELSE TryExcs \ {"none"}) :
                           IF Reraised(exc) THEN
                               \* lines 775-776
                               /\ tp_last' = call(exc, "try")
                               /\ Abort(exc, "tracepoint")
                           ELSE
                               /\ tp_last' = call(exc, "try")
                               /\ pos2' = NextPos2(pos2, TracepointDataSize(log_data_len))
                               /\ IF exc = "none"
                                  THEN /\ logs' = AppendLog(logs, entry)
                                       /\ decoded' = Append(decoded, entry)
                                  ELSE UNCHANGED <<logs, decoded>>
                               /\ Continue("tp")
                               /\ UNCHANGED <<chunkLocals, sub_left, fh_continuousTime,
                                              logs_end_offset, batches>>
    /\ UNCHANGED <<folder_left, boot_uuid_ts_list, notTr>>

\* The tracepoint loop ends (line 416): _ParseFirehoseChunkData returns, its
\* locals are gone, and the iteration of the loop of ProcessDataChunk ends.
EndOfFirehose ==
    /\ pc = "tp" /\ pos2 >= logs_end_offset
    /\ sub_left' = sub_left - 1
    /\ fh_continuousTime' = 0
    /\ pos2' = 0
    /\ logs_end_offset' = 0
    /\ tp_last' = NoTracepoint
    /\ Continue("sub")
    /\ UNCHANGED <<folder_left, boot_uuid_ts_list, catalog, meta_chunk_index,
                   chunks_left, logs, batches, decoded, notTr>>

\* ProcessDataChunk returns; lines 358-378 end the iteration of the chunk
\* loop.
EndOfDataChunk ==
    /\ pc = "sub" /\ sub_left = 0
    /\ meta_chunk_index' = meta_chunk_index + 1
    /\ EndOfChunk(logs)
    /\ Continue("top")
    /\ UNCHANGED <<folder_left, boot_uuid_ts_list, catalog, sub_left,
                   fh_continuousTime, pos2, logs_end_offset, tp_last, decoded,
                   notTr>>

\* The chunk loop ends: lines 380-382, then _ParseFileObject returns without
\* a return statement (its locals are gone) and Parse goes on at line 1706
\* with result None.
EndOfFile ==
    /\ pc = "top" /\ chunks_left = 0
    /\ IF FlushAtEnd(logs)
       THEN batches' = Append(batches, [recs |-> logs, at |-> "eof"])
       ELSE batches' = batches
    /\ pc' = "idle"
    /\ parse_result' = "None"
    /\ is_valid' = FALSE
    /\ catalog' = -1
    /\ meta_chunk_index' = 0
    /\ UNCHANGED <<folder_left, last_cause, reader_exc, boot_uuid_ts_list,
                   chunks_left, sub_left, fhLocals, tp_last, logs, decoded, notTr>>

-----------------------------------------------------------------------------
(* tracev3_file.py: the log-data buffer and the message reconstructor      *)
(*                                                                         *)
(* A Python str or bytes object is a record [py, v]: py tells the two      *)
(* apart ("str" or "bytes"), v is the sequence of its characters or bytes  *)
(* (one-character strings).  A format string and a message are a plain     *)
(* sequence; the literal texts the code puts into a message ("<private>",  *)
(* "(null)", "E-R-R-O-R", ...) are each one element of it.                 *)

Str(v)   == [py |-> "str", v |-> v]
Bytes(v) == [py |-> "bytes", v |-> v]

\* x[a:b] of Python for 0 <= a, on a str or a bytes object
PySlice(x, a, b) ==
    [py |-> x.py,
     v  |-> SubSeq(x.v, a + 1, IF b > Len(x.v) THEN Len(x.v) ELSE b)]

RECURSIVE PyReplace(_, _)
\* s.replace('%%', c): non-overlapping occurrences, from the left
PyReplace(s, c) ==
    IF Len(s) < 2 THEN s
    ELSE IF s[1] = "%" /\ s[2] = "%"
         THEN <<c>> \o PyReplace(SubSeq(s, 3, Len(s)), c)
         ELSE <<s[1]>> \o PyReplace(Tail(s), c)

\* Group 4 of self.regex_pattern (line 80)
Specifiers == {"@", "d", "D", "i", "u", "U", "x", "X", "o", "O", "f", "e", "E",
               "g", "G", "c", "C", "s", "S", "p", "a", "A", "F", "P"}

\* The specifiers of _specifier_handlers that end in _handle_string when
\* there is no custom specifier (lines 1494-1498, 1452-1466)
StringSpecifiers == {"c", "C", "s", "S", "@"}

\* The characters format strings are made of here.  None of them can stand
\* between the "%" and the specifier of a directive (groups 1 to 3 of the
\* pattern), so that a directive is a "%" followed by a specifier.
FmtChars == {"%", "s", "k"}

RECURSIVE FindIter(_, _)
\* self.regex.finditer(s): the start offsets (0-based) of the hits at or
\* after offset i, in order
FindIter(s, i) ==
    IF i + 2 > Len(s) THEN << >>
    ELSE IF s[i + 1] = "%" /\ s[i + 2] \in Specifiers
         THEN <<i>> \o FindIter(s, i + 2)
         ELSE FindIter(s, i + 1)

RECURSIVE RStripNul(_)
\* v.rstrip('\x00'); the NUL byte is written "NUL"
RStripNul(v) ==
    IF v # << >> /\ v[Len(v)] = "NUL" THEN RStripNul(SubSeq(v, 1, Len(v) - 1)) ELSE v

\* _handle_string (lines 1349-1367) on an item [t, size, raw], without
\* flags, width or precision: the text, or the exception raised
handle_string(data_item) ==
    IF data_item.size = 0
    THEN [exc |-> "none",
          msg |-> IF data_item.t = 64 THEN <<"(null)">>          \* 0x40
                  ELSE IF data_item.t % 2 = 1 THEN <<"<private>">>
                  ELSE << >>]
    ELSE IF data_item.raw.py = "str"
         THEN \* a str has no decode()
              [exc |-> "AttributeError", msg |-> << >>]
         ELSE [exc |-> "none", msg |-> RStripNul(data_item.raw.v)]

\* Lines 1551-1556: the handler of a specifier.  Only the string handler
\* is modelled; format strings hold no other specifier.
Handle(specifier, data_item) ==
    IF specifier \in StringSpecifiers THEN handle_string(data_item)
    ELSE [exc |-> "none", msg |-> <<"<handler>">>]

RECURSIVE RecreateLoop(_, _, _, _, _, _)
\* The loop of lines 1514-1562 over the hits still to come: msg so far,
\* format_str_consumed, index.  Gives msg and last_hit_end.
RecreateLoop(format_str, hits, data, msg, consumed, index) ==
    IF hits = << >> THEN [msg |-> msg, consumed |-> consumed]
    ELSE LET start == Head(hits)
             m1 == msg \o SubSeq(format_str, consumed + 1, start)
         IN  IF index >= Len(data)
             THEN [msg |-> m1 \o <<"<decode: missing data>">>, consumed |-> start + 2]
             ELSE LET h == Handle(format_str[start + 2], data[index + 1])
                      m2 == IF h.exc = "none" THEN m1 \o h.msg
                            ELSE m1 \o <<"E-R-R-O-R">>
                  IN  RecreateLoop(format_str, Tail(hits), data, m2, start + 2, index + 1)

\* The start at index 1, which leaves the first item out
RecreateMsgFromSecondItem(format_str, data) ==
    LET format_str_for_regex == PyReplace(format_str, "~")
        fs == PyReplace(format_str, "%")
        r == RecreateLoop(fs, FindIter(format_str_for_regex, 0), data, << >>, 0, 1)
    IN  IF r.consumed < Len(fs)
        THEN r.msg \o SubSeq(fs, r.consumed + 1, Len(fs))
        ELSE r.msg

\* RecreateMsgFromFmtStringAndData (lines 1505-1569)
RecreateMsgFromFmtStringAndData(format_str, data) ==
    LET format_str_for_regex == PyReplace(format_str, "~")
        fs == PyReplace(format_str, "%")
        r == RecreateLoop(fs, FindIter(format_str_for_regex, 0), data, << >>, 0, 0)
    IN  IF r.consumed < Len(fs)
        THEN r.msg \o SubSeq(fs, r.consumed + 1, Len(fs))
        ELSE r.msg

\* The item types ReadLogDataBuffer takes for string descriptors (line 1239)
StringDescriptorTypes == {32, 33, 34, 37, 64, 65, 66, 69, 49, 50, 242}

\* A log-data buffer is [items, tail]: the (item_type, item_size) entries
\* with, for a string descriptor, its (offset, size), and the bytes that
\* follow the entries.  total_items is the number of entries and buf_size
\* the size of the whole.

RECURSIVE ReadLogDataItems(_, _, _)
\* The loop of lines 1227-1258 from entry i on: data is the list so far.
\* A string descriptor leaves '' in its place; any other entry is
\* appended with the item_size bytes that follow it (left out here).
ReadLogDataItems(items, i, data) ==
    IF i > Len(items) THEN data
    ELSE LET it == items[i]
             d == IF it.item_type \in StringDescriptorTypes
                  THEN Append(data, [t |-> it.item_type, size |-> it.size, raw |-> Str(<< >>)])
                  ELSE IF (it.item_type \div 16) % 16 = 1 THEN data
                  ELSE Append(data, [t |-> it.item_type, size |-> it.item_size,
                                     raw |-> Bytes(<< >>)])
         IN  IF it.item_size = 0 THEN d      \* line 1254-1256
             ELSE ReadLogDataItems(items, i + 1, d)

\* Lines 1284-1297 for one descriptor: the item put in its place
ResolveDescriptor(it, tail, strings_buffer) ==
    LET raw == IF it.item_type \in {33, 65}          \* 0x21, 0x41
               THEN (IF it.size # 0
                     THEN PySlice(strings_buffer, it.offset, it.offset + it.size)
                     ELSE Str(<<"<private>">>))
               ELSE IF it.item_type = 64              \* 0x40
               THEN (IF it.size # 0
                     THEN PySlice(Bytes(tail), it.offset, it.offset + it.size)
                     ELSE Str(<<"(null)">>))
               ELSE PySlice(Bytes(tail), it.offset, it.offset + it.size)
    IN  [t |-> it.item_type, size |-> it.size, raw |-> raw]

\* ReadLogDataBuffer (lines 1218-1303): the list of items [t, size, raw]
ReadLogDataBuffer(buffer, strings_buffer) ==
    LET data == ReadLogDataItems(buffer.items, 1, << >>)
        \* the entries read, in the order of data
        read == SelectSeq(SubSeq(buffer.items, 1, Len(buffer.items)),
                          LAMBDA it : (it.item_type \div 16) % 16 # 1
                                      \/ it.item_type \in StringDescriptorTypes)
    IN  [k \in 1..Len(data) |->
            IF data[k].t \in StringDescriptorTypes
            THEN ResolveDescriptor(read[k], buffer.tail, strings_buffer)
            ELSE data[k]]

-----------------------------------------------------------------------------
(* tracev3_file.py: the decoder of a firehose tracepoint                   *)

\* fmt_str_v_offset is [high, low]: bit 0x80000000 and the bits below it
NoFmtStr(fmt_str_v_offset) == fmt_str_v_offset.high

\* Uuidtext.ReadFmtStringFromVirtualOffset on a uuidtext whose entries
\* hold the given strings: the string of the entry that contains the
\* offset; it fails if no entry does.
ReadFmtStringFromVirtualOffset(strings, fmt_str_v_offset) ==
    IF ~fmt_str_v_offset.high /\ fmt_str_v_offset.low \in DOMAIN strings
    THEN [exc |-> "none", str |-> strings[fmt_str_v_offset.low]]
    ELSE [exc |-> "Exception", str |-> << >>]

\* The strings of the uuidtext of the process (ut_cache), of an alternate
\* uuidtext, and the text of the dsc file at the offsets of its range
UtCacheStrings == (1 :> <<"ut", "%", "s">>) @@ (2 :> <<"ut", "%", "%">>)
                      @@ (3 :> <<"%", "%", "s">>)
AlternateStrings == (1 :> <<"alt", "%", "s">>) @@ (2 :> <<"alt", "%", "%">>)
DscStrings == (1 :> <<"dsc", "%", "s">>) @@ (2 :> <<"dsc", "%", "%">>)

\* The dsc file of the process: one range, offsets 1 and 2, of one image
DscOfProcess ==
    ParseDscFileObject(TRUE, 1, 1, <<[uuid_index |-> 0, v_off |-> 1, data_len |-> 2]>>,
                       [n |-> 1, recs |-> <<0>>])

\* Dsc.ReadFmtStringAndEntriesFromVirtualOffset(v_offset) (lines 166-196).
\* fmt_cache only keeps what an earlier call with the same offset gave.
ReadFmtStringAndEntriesFromVirtualOffset(fmt_str_v_offset) ==
    LET f == IF fmt_str_v_offset.high
             THEN [exc |-> "none", range_entry |-> NoRangeEntry, uuid_entry |-> NoUuidEntry]
             ELSE FindVirtualOffsetEntries(fmt_str_v_offset.low)
    IN  IF f.exc # "none" THEN [exc |-> f.exc, str |-> << >>]
        ELSE IF f.range_entry = NoRangeEntry THEN [exc |-> "KeyError", str |-> << >>]
        ELSE [exc |-> "none", str |-> DscStrings[fmt_str_v_offset.low]]

ComposeFailure == <<"<compose failure [missing precomposed log]>">>
MissingData == <<"<decode: missing data>">>

RECURSIVE BitOr(_, _)
\* a | b of two naturals
BitOr(a, b) == IF a = 0 THEN b
               ELSE IF b = 0 THEN a
               ELSE (IF a % 2 = 1 \/ b % 2 = 1 THEN 1 ELSE 0)
                    + 2 * BitOr(a \div 2, b \div 2)

\* Lines 753 and 971: data_ref_id << 64 | ct, with CtBits bits for the 64
\* bits of a continuous time
LargeDataKey(data_ref_id, ct) == BitOr(data_ref_id * Pow2(CtBits), ct)

\* A tracepoint without log data (log_data_len2 = 0), and the value of
\* large_data.get() for a key that is not there
NoBuffer == [items |-> << >>, tail |-> <<"none">>]
NoPayload == [file |-> -1, buf |-> NoBuffer]

\* An oversize payload of no bytes
EmptyPayload == [items |-> << >>, tail |-> <<"empty">>]

NoTpIn == [flags |-> -1]
NoTpOut == [exc |-> "none", entry |-> FALSE, format_sel |-> << >>,
            format_str |-> << >>, strings_slice |-> Str(<< >>),
            log_data |-> << >>, log_msg |-> << >>, payload_file |-> -1]

\* lines 752-759 without the assignment of line 758
FormatAfterDataRefKept(has_ref, found, format_str) ==
    format_str

\* format_str after lines 752-759: a tracepoint with a data reference whose
\* payload is not in large_data (or is of no bytes) gets the literal of line
\* 758 in place of its format string
FormatAfterDataRef(has_ref, found, format_str) ==
    IF has_ref /\ ~found THEN MissingData ELSE format_str

\* format_str with the dsc branch looked at before the uuidtext branch
\* (lines 692 and 704 exchanged)
SelectFormatDscFirst(tp, alt) ==
    LET off == tp.fmt_str_v_offset
        d == ReadFmtStringAndEntriesFromVirtualOffset(off)
    IN  IF BitAnd(tp.flags, 4) # 0 THEN
            (IF tp.dsc_file_index = -1 THEN [exc |-> "AttributeError", str |-> << >>]
             ELSE IF NoFmtStr(off) THEN [exc |-> "none", str |-> <<"%", "s">>]
             ELSE IF d.exc \in {"KeyError", "IOError"} THEN alt
             ELSE d)
        ELSE IF BitAnd(tp.flags, 2) # 0 THEN
            (IF BitAnd(tp.flags, 8) # 0 THEN alt
             ELSE ReadFmtStringFromVirtualOffset(UtCacheStrings, off))
        ELSE alt

\* Lines 691-731: format_str after "Get format_str and lib now"; alt is
\* what lines 608-656 left in it.
SelectFormat(tp, alt) ==
    LET off == tp.fmt_str_v_offset
        d == ReadFmtStringAndEntriesFromVirtualOffset(off)
    IN  IF BitAnd(tp.flags, 2) # 0 THEN
            \* has_msg_in_uuidtext; with has_alternate_uuid it was read above
            (IF BitAnd(tp.flags, 8) # 0 THEN alt
             ELSE ReadFmtStringFromVirtualOffset(UtCacheStrings, off))
        ELSE IF BitAnd(tp.flags, 4) # 0 THEN
            \* has_msg_in_dsc; line 711 is a call on dsc_cache
            (IF tp.dsc_file_index = -1 THEN [exc |-> "AttributeError", str |-> << >>]
             ELSE IF NoFmtStr(off) THEN [exc |-> "none", str |-> <<"%", "s">>]
             ELSE IF d.exc \in {"KeyError", "IOError"} THEN alt   \* lines 724-725
             ELSE d)
        ELSE
            \* has_alternate_uuid alone (parsed above), or no flag at all
            alt

\* The try block of _ParseFirehoseTracepointData (lines 473-773) for a
\* tracepoint that is no activity and no signpost and whose fields are all
\* there: what it raises, whether a LogEntry is built, and the values of
\* format_str (after line 731 and at line 764), log_data and log_msg.
\* payload_file tells which file's oversize chunk log_data came from.
TracepointTry(tp, store) ==
    LET off == tp.fmt_str_v_offset
        has_msg_in_uuidtext == BitAnd(tp.flags, 2) # 0
        has_alternate_uuid == BitAnd(tp.flags, 8) # 0
        \* lines 586-592
        priv_str_len == IF BitAnd(tp.flags, 256) # 0 /\ tp.private_strings.v # << >>
                        THEN tp.priv_str_len ELSE 0
        \* lines 608-656
        alt == IF ~has_alternate_uuid THEN [exc |-> "none", str |-> << >>]
               ELSE IF tp.alt_found
               THEN ReadFmtStringFromVirtualOffset(AlternateStrings, off)
               ELSE [exc |-> "none",
                     str |-> IF has_msg_in_uuidtext THEN << >> ELSE ComposeFailure]
        sel == IF alt.exc # "none" THEN alt ELSE SelectFormat(tp, alt)
        \* lines 733-750
        strings_slice == IF priv_str_len # 0
                         THEN PySlice(tp.private_strings, tp.priv_start,
                                      tp.priv_start + priv_str_len)
                         ELSE Str(<< >>)
        own_data == IF tp.buffer = NoBuffer THEN << >>
                    ELSE ReadLogDataBuffer(tp.buffer, strings_slice)
        \* lines 752-759
        has_ref == BitAnd(tp.flags, 2048) # 0
        unique_ref == LargeDataKey(tp.data_ref_id, tp.ct)
        payload == IF unique_ref \in DOMAIN store THEN store[unique_ref] ELSE NoPayload
        found == payload # NoPayload /\ payload.buf # EmptyPayload
        log_data == IF ~has_ref THEN own_data
                    ELSE IF found THEN ReadLogDataBuffer(payload.buf, Str(<< >>))
                    ELSE << >>
        format_str == FormatAfterDataRef(has_ref, found, sel.str)
    IN  IF sel.exc # "none"
        THEN [NoTpOut EXCEPT !.exc = sel.exc]
        ELSE [exc |-> "none", entry |-> TRUE,
              format_sel |-> sel.str,
              format_str |-> format_str,
              strings_slice |-> strings_slice,
              log_data |-> log_data,
              \* line 764
              log_msg |-> IF log_data # << >>
                          THEN RecreateMsgFromFmtStringAndData(format_str, log_data)
                          ELSE format_str,
              payload_file |-> IF has_ref /\ found THEN payload.file ELSE -1]

\* Continuous times and ids of oversize chunks
OversizeCts == {0, 1}
DataRefIds == {0, 1}

\* What a tracepoint may carry
FormatFlags == {0, 2, 4, 6, 8, 10, 12, 14}     \* the bits 0x0002, 0x0004, 0x0008
OversizeFlag == 2048                          \* HAS_OVERSIZE_DATA_REFERENCE
PrivateFlag == 256                            \* HAS_PRIVATE_STRINGS_RANGE
FmtOffsets == [high : BOOLEAN, low : 0..2]

\* Log-data buffers: one public string "w"; one string "w" and a NUL; no
\* entry at all
StringItem(t, size) == [item_type |-> t, item_size |-> 4, offset |-> 0, size |-> size]
PublicBuffer == [items |-> <<StringItem(34, 1)>>, tail |-> <<"w">>]
BigBuffer == [items |-> <<StringItem(34, 2)>>, tail |-> <<"B", "NUL">>]
NoItemsBuffer == [items |-> << >>, tail |-> << >>]

\* The fields of a tracepoint that the flags of FormatFlags do not ask for
PlainTracepoint ==
    [flags |-> 0, fmt_str_v_offset |-> [high |-> FALSE, low |-> 1], ct |-> 0,
     data_ref_id |-> 0, alt_found |-> TRUE, dsc_file_index |-> 0,
     buffer |-> NoBuffer, private_strings |-> Str(<< >>), priv_start |-> 0,
     priv_str_len |-> 0]

\* TraceV3.__init__ (lines 44-91) and the dsc file the catalog gives the
\* process
TpInit ==
    /\ large_data = << >>
    /\ tv_file = 1
    /\ ov_seen = << >>
    /\ tp_in = NoTpIn
    /\ tp_out = NoTpOut

TpIdle ==
    /\ large_data = << >>
    /\ tv_file = 0
    /\ ov_seen = << >>
    /\ tp_in = NoTpIn
    /\ tp_out = NoTpOut

DscParsed ==
    /\ range_entries = DscOfProcess.range_entries
    /\ range_entry_offsets = DscOfProcess.range_entry_offsets
    /\ num_range_entries = DscOfProcess.num_range_entries
    /\ uuid_entries = DscOfProcess.uuid_entries
    /\ dsc_result = DscOfProcess.ret
    /\ dsc_is_valid = TRUE
    /\ dsc_sig_ok = TRUE
    /\ find_v = -1
    /\ find_result = [exc |-> "none", range_entry |-> NoRangeEntry, uuid_entry |-> NoUuidEntry]

\* _ReadTraceV3File (lines 63-80) goes on to the next file: a new TraceV3
\* object, whose __init__ sets large_data to {} (line 90) whatever it is
\* given as large_data_cache.
NewTraceV3 ==
    /\ tv_file < MaxTraceFiles
    /\ tv_file' = tv_file + 1
    /\ large_data' = << >>
    /\ ov_seen' = << >>
    /\ tp_in' = NoTpIn
    /\ tp_out' = NoTpOut
    /\ UNCHANGED notTp

\* _ParseOversizeChunkData (lines 957-976) on an oversize chunk of the
\* file; the timesync list has an item for the debug print of line 975.
Oversize ==
    /\ Len(ov_seen) < MaxOversize
    /\ \E ct \in OversizeCts, data_ref_id \in DataRefIds,
          buf \in {PublicBuffer, BigBuffer, EmptyPayload} :
         /\ large_data' = (LargeDataKey(data_ref_id, ct) :> [file |-> tv_file, buf |-> buf])
                              @@ large_data
         /\ ov_seen' = Append(ov_seen, [data_ref_id |-> data_ref_id, ct |-> ct, buf |-> buf])
    /\ tp_in' = NoTpIn
    /\ tp_out' = NoTpOut
    /\ UNCHANGED <<tv_file, notTp>>

\* _ParseFirehoseTracepointData on a tracepoint that refers to oversize
\* data: its continuous time is the
\* continuousTime of the firehose chunk (64 bits) plus ct_rel (line 465)
TpOversize ==
    \E base \in {0, Pow2(CtBits) - 1}, ct_rel \in 0..1, data_ref_id \in DataRefIds,
       flags \in {2, 0} :
        LET tp == [PlainTracepoint EXCEPT
                      !.flags = BitOr(flags, OversizeFlag),
                      !.ct = base + ct_rel,
                      !.data_ref_id = data_ref_id]
        IN  /\ tp_in' = tp
            /\ tp_out' = TracepointTry(tp, large_data)
            /\ UNCHANGED <<large_data, tv_file, ov_seen, notTp>>

\* _ParseFirehoseTracepointData on a tracepoint with any of the flags that
\* tell where its format string is
TpFormat ==
    \E flags \in FormatFlags, ref \in BOOLEAN, off \in FmtOffsets,
       alt_found \in BOOLEAN, dsc_file_index \in {0, -1},
       buffer \in {NoBuffer, PublicBuffer} :
        LET tp == [PlainTracepoint EXCEPT
                      !.flags = IF ref THEN BitOr(flags, OversizeFlag) ELSE flags,
                      !.fmt_str_v_offset = off,
                      !.alt_found = alt_found,
                      !.dsc_file_index = dsc_file_index,
                      !.buffer = buffer]
        IN  /\ tp_in' = tp
            /\ tp_out' = TracepointTry(tp, large_data)
            /\ UNCHANGED <<large_data, tv_file, ov_seen, notTp>>

\* Log-data buffers with one string descriptor of a private type (0x21 or
\* 0x41), of size 0 or 1; the byte "w" follows the entry
PrivateBuffers ==
    { [items |-> <<StringItem(t, size)>>, tail |-> <<"w">>] : t \in {33, 65}, size \in 0..1 }

\* Log-data buffers with one string descriptor of size 1, of every type that
\* line 1239 takes for a string descriptor; the byte "w" follows the entry
DescriptorBuffers ==
    { [items |-> <<StringItem(t, 1)>>, tail |-> <<"w">>] : t \in StringDescriptorTypes }

\* The private strings of the firehose chunk: none, or the byte "p"
PrivateStrings == {Bytes(<< >>), Bytes(<<"p">>)}

\* _ParseFirehoseTracepointData on a tracepoint whose format string is in
\* the uuidtext of the process, with any of the log-data buffers and any
\* private strings range
TpMessage ==
    \E private \in BOOLEAN, low \in DOMAIN UtCacheStrings,
       buffer \in {NoBuffer, NoItemsBuffer, PublicBuffer} \cup PrivateBuffers
                     \cup DescriptorBuffers,
       private_strings \in PrivateStrings, priv_start \in 0..1, priv_str_len \in 0..1 :
        LET tp == [PlainTracepoint EXCEPT
                      !.flags = IF private THEN BitOr(2, PrivateFlag) ELSE 2,
                      !.fmt_str_v_offset = [high |-> FALSE, low |-> low],
                      !.buffer = buffer,
                      !.private_strings = private_strings,
                      !.priv_start = priv_start,
                      !.priv_str_len = priv_str_len]
        IN  /\ tp_in' = tp
            /\ tp_out' = TracepointTry(tp, large_data)
            /\ UNCHANGED <<large_data, tv_file, ov_seen, notTp>>

-----------------------------------------------------------------------------
(* The decompressor of a 0x600D chunk (tracev3_file.py, lines 93-116).      *)
(* A chunk is a sequence of blocks; a block has a 4-byte header and a body. *)
(* The body of a bv41 block is LZ4 block data: a sequence of operations,    *)
(* each a literal byte or the copy of the byte k places back in what has    *)
(* been written so far, the dictionary standing before the output.          *)

MaxBlocks == 3

Lit(b) == [k |-> 0, b |-> b]
Back(k) == [k |-> k, b |-> "a"]

\* Bodies of bv41 blocks and of bv4- blocks (literal bytes only)
Bv41Bodies == {<<Lit("a")>>, <<Back(1)>>, <<Lit("b"), Back(2)>>}
RawBodies == {<<Lit("a")>>, <<Lit("b")>>}

Blocks ==
    [header : {"bv41"}, body : Bv41Bodies]
        \cup [header : {"bv4-"}, body : RawBodies]
        \cup [header : {"bv4$", "zzzz"}, body : {<< >>}]

Chunks == UNION { [1..n -> Blocks] : n \in 0..MaxBlocks }

RECURSIVE Lz4Ops(_, _, _, _)
\* lz4.block.decompress(source, uncompressed_size, dict=dict) from operation i
\* on, out being what is written already
Lz4Ops(ops, i, dict, out) ==
    IF i > Len(ops) THEN [exc |-> "none", out |-> out]
    ELSE IF ops[i].k = 0 THEN Lz4Ops(ops, i + 1, dict, Append(out, ops[i].b))
    ELSE LET window == dict \o out
         IN  IF ops[i].k > Len(window)
             THEN [exc |-> "LZ4BlockError", out |-> << >>]
             ELSE Lz4Ops(ops, i + 1, dict,
                         Append(out, window[Len(window) - ops[i].k + 1]))

Lz4Decompress(source, dict) == Lz4Ops(source, 1, dict, << >>)

\* The bytes of a bv4- block (line 107)
RawBytes(body) == [i \in 1..Len(body) |-> body[i].b]

\* comp_header of line 99 and line 113: the header at comp_start, b'' past
\* the end of the data
CompHeader(chunk_data, at) ==
    IF at <= Len(chunk_data) THEN chunk_data[at].header ELSE ""

DcInit ==
    /\ dc_chunk \in Chunks
    /\ dc_pc = "entry"
    /\ comp_start = 0
    /\ uncompressed = << >>
    /\ last_uncompressed = << >>
    /\ dc_blocks = << >>

DcIdle ==
    /\ dc_chunk = << >>
    /\ dc_pc = "none"
    /\ comp_start = 0
    /\ uncompressed = << >>
    /\ last_uncompressed = << >>
    /\ dc_blocks = << >>

\* lines 95-99 and 114-116: the test of the first header
DecompressEnter ==
    /\ dc_pc = "entry"
    /\ IF CompHeader(dc_chunk, 1) \in {"bv41", "bv4-"}
       THEN /\ dc_pc' = "loop"
            /\ comp_start' = 1
       ELSE /\ dc_pc' = "returned"
            /\ UNCHANGED comp_start
    /\ UNCHANGED <<dc_chunk, uncompressed, last_uncompressed, dc_blocks, notDc>>

\* lines 100-105 and 113: one turn of the loop on a bv41 block
DecompressBv41 ==
    /\ dc_pc = "loop"
    /\ CompHeader(dc_chunk, comp_start) = "bv41"
    /\ LET d == Lz4Decompress(dc_chunk[comp_start].body, last_uncompressed)
       IN  IF d.exc # "none"
           THEN /\ dc_pc' = "raised"
                /\ UNCHANGED <<comp_start, uncompressed, last_uncompressed, dc_blocks>>
           ELSE /\ last_uncompressed' = d.out
                /\ comp_start' = comp_start + 1
                /\ uncompressed' = uncompressed \o d.out
                /\ dc_blocks' = Append(dc_blocks, [header |-> "bv41",
                                                   dict |-> last_uncompressed,
                                                   out |-> d.out])
                /\ UNCHANGED dc_pc
    /\ UNCHANGED <<dc_chunk, notDc>>

\* lines 100, 106-109 and 113: one turn of the loop on a bv4- block
DecompressRaw ==
    /\ dc_pc = "loop"
    /\ CompHeader(dc_chunk, comp_start) = "bv4-"
    /\ uncompressed' = uncompressed \o RawBytes(dc_chunk[comp_start].body)
    /\ comp_start' = comp_start + 1
    /\ dc_blocks' = Append(dc_blocks, [header |-> "bv4-", dict |-> << >>,
                                       out |-> RawBytes(dc_chunk[comp_start].body)])
    /\ UNCHANGED <<dc_chunk, dc_pc, last_uncompressed, notDc>>

\* lines 110-112: a header that is none of the three
DecompressUnknown ==
    /\ dc_pc = "loop"
    /\ CompHeader(dc_chunk, comp_start) \notin {"bv41", "bv4-", "bv4$", ""}
    /\ dc_pc' = "returned"
    /\ UNCHANGED <<dc_chunk, comp_start, uncompressed, last_uncompressed,
                   dc_blocks, notDc>>

\* line 100 false: the end of the data or a bv4$ header; line 116
DecompressEnd ==
    /\ dc_pc = "loop"
    /\ \/ comp_start > Len(dc_chunk)
       \/ CompHeader(dc_chunk, comp_start) = "bv4$"
    /\ dc_pc' = "returned"
    /\ UNCHANGED <<dc_chunk, comp_start, uncompressed, last_uncompressed,
                   dc_blocks, notDc>>

-----------------------------------------------------------------------------
(* The cache of dsc and uuidtext files (UnifiedLogReaderBase.py, lines      *)
(* 42-111) and its use by TraceV3 (tracev3_file.py, lines 44-91 and         *)
(* 1144-1178).                                                              *)

MaxFileObjects == 2

Uuids == {"A1", "B2", "C3"}

\* What the uuidtext folder holds under a UUID: a dsc file, a dsc file of
\* major version 3, a dsc file with a wrong signature, a uuidtext file, or
\* nothing
DiskKinds == {"dsc", "dsc_v3", "dsc_badsig", "uuidtext", "missing"}

\* The names under which vfs.path_exists finds a file of the dsc folder
\* (line 1159)
DscKinds == {"dsc", "dsc_v3", "dsc_badsig"}

\* What leaves Dsc.Parse() for a file of the dsc folder (dsc_file.py, lines
\* 55-66 and 245-257): the NameError of line 57 and the UserWarning of line
\* 66 are not among the exceptions Parse catches
DscParseRaises(kind) ==
    CASE kind = "dsc_badsig" -> "NameError"
      [] kind = "dsc_v3" -> "UserWarning"
      [] OTHER -> "none"

\* self._caches of the reader, and cached_files of a TraceV3, when None
NoCachedFiles == [loaded |-> FALSE, cached_dsc |-> {}, cached_uuidtext |-> {}]

\* CachedFiles.ParseFolder: every dsc and uuidtext file of the folder, parsed
\* and kept by its UUID string
ParseFolder(disk) ==
    [loaded |-> TRUE,
     cached_dsc |-> { u \in Uuids : disk[u] = "dsc" },
     cached_uuidtext |-> { u \in Uuids : disk[u] = "uuidtext" }]

\* The parameters of TraceV3.__init__ after self (line 44) and the
\* arguments of the call of lines 74-76, all positional
TraceV3Params == <<"v_fs", "v_file", "ts_list", "uuidtext_folder_path",
                   "large_data_cache", "cached_files">>
TraceV3Args == <<"self._vfs", "file_object", "self._ts_list",
                 "self._uuidtext_folder_path", "self._caches">>

\* The argument bound to a parameter: the one at its place, or the default
\* None of cached_files
BoundTo(param) ==
    LET i == CHOOSE j \in 1..Len(TraceV3Params) : TraceV3Params[j] = param
    IN  IF i <= Len(TraceV3Args) THEN TraceV3Args[i] ELSE "None"

RcInit ==
    /\ rc_disk \in [Uuids -> DiskKinds]
    /\ caches = NoCachedFiles
    /\ rc_tv = FALSE
    /\ cached_files = NoCachedFiles
    /\ FileObjects = << >>
    /\ rc_uuids = << >>
    /\ rc_exc = "none"

RcIdle ==
    /\ rc_disk = [u \in Uuids |-> "missing"]
    /\ caches = NoCachedFiles
    /\ rc_tv = FALSE
    /\ cached_files = NoCachedFiles
    /\ FileObjects = << >>
    /\ rc_uuids = << >>
    /\ rc_exc = "none"

\* UnifiedLogReaderHelper.ReadDscFiles (lines 102-111), which the script
\* calls once, before ReadTraceV3Files
ReadDscFiles ==
    /\ ~rc_tv
    /\ ~caches.loaded
    /\ caches' = ParseFolder(rc_disk)
    /\ UNCHANGED <<rc_disk, rc_tv, cached_files, FileObjects, rc_uuids, rc_exc, notRc>>

\* _ReadTraceV3File (lines 63-80) constructs the TraceV3 of the next file:
\* __init__ keeps the argument bound to cached_files (line 76); the catalog
\* of the file starts with no file objects
ReadTraceV3File ==
    /\ rc_exc = "none"
    /\ rc_tv' = TRUE
    /\ cached_files' = IF BoundTo("cached_files") = "self._caches"
                       THEN caches ELSE NoCachedFiles
    /\ FileObjects' = << >>
    /\ rc_uuids' = << >>
    /\ UNCHANGED <<rc_disk, caches, rc_exc, notRc>>

\* Lines 1173-1178: is line 1164 (1172), the append after Parse(), reached?
\* Not when Parse() raised: the exception is raised again (line 1174) or
\* logged (line 1178).
Appended(exc) == exc = "none"

\* An iteration of the loop of _ParseMetaChunk over the UUIDs of the
\* catalog (lines 812-821) with ProcessReferencedFile (lines 1144-1178).
\* from tells whether the object appended is the one of the cache or one
\* that was opened and parsed by this call.  A uuidtext that is missing or
\* does not parse is appended all the same: Uuidtext.Parse() returns False
\* for it.
ProcessReferencedFile ==
    /\ rc_tv
    /\ rc_exc = "none"
    /\ Len(rc_uuids) < MaxFileObjects
    /\ \E uuid_string \in Uuids :
        LET cached == cached_files.loaded
                         /\ uuid_string \in cached_files.cached_dsc \cup cached_files.cached_uuidtext
            exc == IF ~cached /\ rc_disk[uuid_string] \in DscKinds
                   THEN DscParseRaises(rc_disk[uuid_string]) ELSE "none"
            obj == IF cached_files.loaded /\ uuid_string \in cached_files.cached_dsc
                   THEN [uuid |-> uuid_string, kind |-> "dsc", from |-> "cache"]
                   ELSE IF cached_files.loaded /\ uuid_string \in cached_files.cached_uuidtext
                   THEN [uuid |-> uuid_string, kind |-> "uuidtext", from |-> "cache"]
                   ELSE IF rc_disk[uuid_string] \in DscKinds
                   THEN [uuid |-> uuid_string, kind |-> "dsc", from |-> "parsed"]
                   ELSE [uuid |-> uuid_string, kind |-> "uuidtext", from |-> "parsed"]
        IN  /\ rc_uuids' = Append(rc_uuids, uuid_string)
            /\ FileObjects' = IF Appended(exc) THEN Append(FileObjects, obj) ELSE FileObjects
            /\ rc_exc' = IF Reraised(exc) THEN exc ELSE "none"
    /\ UNCHANGED <<rc_disk, caches, rc_tv, cached_files, notRc>>

-----------------------------------------------------------------------------
(* The optional fields of a firehose tracepoint (tracev3_file.py, lines     *)
(* 539-689): which fields _ParseFirehoseTracepointData takes from the        *)
(* bytes after the 24-byte header, in the order pos3 passes them.           *)

\* The bits of the flag word that add a field
FieldFlagBits == {1, 2, 8, 16, 32, 256, 512, 1024, 2048, 32768}

RECURSIVE SumOf(_)
SumOf(S) == IF S = {} THEN 0 ELSE LET x == CHOOSE y \in S : TRUE IN x + SumOf(S \ {x})

\* logtype and record_type of an activity, a signpost and a plain tracepoint
TracepointKinds == {[logtype |-> 1, record_type |-> 2],
                    [logtype |-> 128, record_type |-> 4],
                    [logtype |-> 0, record_type |-> 4]}

IsSignpost(tp) == BitAnd(tp.logtype, 128) # 0                     \* line 502
IsActivity(tp) == /\ ~IsSignpost(tp)                              \* lines 508-512
                  /\ tp.logtype = 1
                  /\ tp.record_type % 16 = 2

Field(cond, name) == IF cond THEN <<name>> ELSE << >>

\* Lines 577-592 with the two ifs exchanged
NonActivityHeadRangeFirst(tp) ==
    Field(BitAnd(tp.flags, 256) # 0 /\ tp.has_private_strings, "priv_str_range")
        \o Field(BitAnd(tp.flags, 1) # 0 /\ tp.sentinel, "current_aid")

\* Lines 577-592: the else branch of 'if is_activity'
NonActivityHead(tp) ==
    Field(BitAnd(tp.flags, 1) # 0 /\ tp.sentinel, "current_aid")
        \o Field(BitAnd(tp.flags, 256) # 0 /\ tp.has_private_strings, "priv_str_range")

\* Lines 541-575: the branch of an activity
ActivityHead(tp) ==
    Field(BitAnd(tp.flags, 1) # 0, "current_aid")
        \o Field(BitAnd(tp.flags, 16) # 0, "unique_pid")
        \o Field(BitAnd(tp.flags, 512) # 0, "other_aid")
        \o Field(tp.logtype # 3 /\ tp.sentinel, "new_activity_identifier")

\* Lines 660-689: the fields of a tracepoint that is no activity, after the
\* alternate uuid
NonActivityTail(tp) ==
    Field(BitAnd(tp.flags, 512) # 0, "item_id")
        \o Field(BitAnd(tp.flags, 1024) # 0, "ttl")
        \o Field(BitAnd(tp.flags, 2048) # 0, "data_ref_id")
        \o Field(IsSignpost(tp), "spid_val")
        \o Field(BitAnd(tp.flags, 32768) # 0, "sp_name_ref")

\* Lines 539-689: every field read, in the order pos3 passes them
ReadOptionalFields(tp) ==
    (IF IsActivity(tp) THEN ActivityHead(tp) ELSE NonActivityHead(tp))
        \o <<"UUID_entry_load_address">>                           \* line 594
        \o Field(BitAnd(tp.flags, 32) # 0, "large_offset")        \* lines 598-606
        \o Field(BitAnd(tp.flags, 8) # 0, "alternate_uuid")       \* lines 608-656
        \o (IF IsActivity(tp) THEN << >> ELSE NonActivityTail(tp))

NoFields == [flags |-> -1]

FlInit ==
    /\ fl_tp = NoFields
    /\ fl_read = << >>

FlIdle ==
    /\ fl_tp = NoFields
    /\ fl_read = << >>

\* _ParseFirehoseTracepointData reads the fields of a tracepoint
ReadFields ==
    /\ fl_tp = NoFields
    /\ \E bits \in SUBSET FieldFlagBits, kind \in TracepointKinds,
          sentinel \in BOOLEAN, has_private_strings \in BOOLEAN :
         LET tp == [flags |-> SumOf(bits), logtype |-> kind.logtype,
                    record_type |-> kind.record_type, sentinel |-> sentinel,
                    has_private_strings |-> has_private_strings]
         IN  /\ fl_tp' = tp
             /\ fl_read' = ReadOptionalFields(tp)
    /\ UNCHANGED notFl

-----------------------------------------------------------------------------
(* The position counters of the chunk loop of _ParseFileObject              *)
(* (tracev3_file.py, lines 333-375).                                        *)

MaxFramed == 3

\* Tags of a catalog chunk, of a compressed chunk and of some other chunk
ChunkTags == {24587, 24589, 24590}           \* 0x600B, 0x600D, 0x600E
\* Values of chunk_data_size and of the size of the decompressed data
ChunkDataSizes == {0, 3, 8, 13}
UncompressedSizes == {0, 5, 16}
\* 16 + chunk_data_size of the header chunk (line 333)
HeaderEnd == 224

\* Lines 366-367: chunk_data_size at the QWORD boundary
QwordAligned(chunk_data_size) ==
    IF chunk_data_size % 8 # 0
    THEN chunk_data_size + (8 - (chunk_data_size % 8))
    ELSE chunk_data_size

\* Lines 369-370, reading chunk_data_size as lines 366-367 left it
AlignedFilePos(file_pos, chunk_data_size) ==
    IF file_pos % 8 # 0
    THEN file_pos + (8 - (chunk_data_size % 8))
    ELSE file_pos

NoChunk == [tag |-> 0, chunk_data_size |-> 0, uncompressed_size |-> 0]

FrInit ==
    /\ uncompressed_file_pos = HeaderEnd
    /\ fr_pos = HeaderEnd
    /\ fr_before = HeaderEnd
    /\ fr_chunk = NoChunk
    /\ fr_count = 0

FrIdle ==
    /\ uncompressed_file_pos = 0
    /\ fr_pos = 0
    /\ fr_before = 0
    /\ fr_chunk = NoChunk
    /\ fr_count = 0

\* One turn of the loop of lines 340-375 on a chunk with the tag and sizes
\* drawn; the parsers called at lines 350 and 357 raise nothing
FrameChunk ==
    /\ fr_count < MaxFramed
    /\ \E tag \in ChunkTags, chunk_data_size \in ChunkDataSizes,
          uncompressed_chunk_data_size \in UncompressedSizes :
         LET advanced == IF tag = 24589
                         THEN uncompressed_file_pos + 16 + uncompressed_chunk_data_size
                         ELSE uncompressed_file_pos + 16 + chunk_data_size
             aligned == QwordAligned(chunk_data_size)
         IN  /\ fr_chunk' = [tag |-> tag, chunk_data_size |-> chunk_data_size,
                             uncompressed_size |->
                                 IF tag = 24589 THEN uncompressed_chunk_data_size ELSE 0]
             /\ fr_before' = uncompressed_file_pos
             /\ uncompressed_file_pos' = AlignedFilePos(advanced, aligned)
             /\ fr_pos' = fr_pos + 16 + aligned
    /\ fr_count' = fr_count + 1
    /\ UNCHANGED notFr

-----------------------------------------------------------------------------
(* Message rendering on its own: RecreateMsgFromFmtStringAndData on a      *)
(* format string and a list of data items, and _handle_integer on one      *)
(* item (tracev3_file.py, lines 1305-1330 and 1505-1569).                  *)

\* Longest format string and longest list of data items
MaxFormatLen == 5
MaxItems == 2

\* The text of the i-th data item, one token that tells the items apart
ItemText == <<"x1", "x2", "x3">>

\* The i-th item of a data list as ReadLogDataBuffer leaves it: a string
\* item with its bytes, or a string descriptor that was never resolved,
\* whose raw_data is still '' (line 1244) with a size that is not 0, and
\* on which _handle_string raises (line 1361)
DataItemsAt(i) == {[t |-> 34, size |-> 1, raw |-> Bytes(<<ItemText[i]>>)],
                   [t |-> 34, size |-> 1, raw |-> Str(<< >>)]}

DataLists ==
    UNION {{d \in [1..n -> UNION {DataItemsAt(i) : i \in 1..n}] :
               \A i \in 1..n : d[i] \in DataItemsAt(i)} : n \in 0..MaxItems}

FormatStrings == UNION {[1..n -> FmtChars] : n \in 1..MaxFormatLen}

\* A byte is scaled to ByteBits bits, so that the 8-byte integers stay
\* within the numbers of the checker
ByteBits == 2

\* The specifiers of _specifier_handlers bound to _handle_integer
\* (lines 1477-1485)
IntegerSpecifiers == {"d", "D", "i", "u", "U", "x", "X", "o", "O"}

\* struct.unpack of data_size bytes whose little-endian value is raw:
\* "<b", "<i", "<q" when signed, "<B", "<I", "<Q" when not
Unpack(signed, data_size, raw) ==
    IF signed /\ raw >= Pow2(data_size * ByteBits - 1)
    THEN raw - Pow2(data_size * ByteBits)
    ELSE raw

\* _handle_integer (lines 1305-1330) on an item [t, size, raw], raw the
\* little-endian value of its bytes: the number that is formatted, the
\* specifier it is formatted with, and msg when no number is formatted
handle_integer(specifier, data_item) ==
    IF data_item.size = 0
    THEN [formatted |-> FALSE, number |-> 0, specifier |-> specifier,
          msg |-> IF data_item.t % 2 = 1 THEN <<"<private>">> ELSE << >>]
    ELSE LET known == data_item.size \in {1, 4, 8}
             number == IF ~known THEN 0
                       ELSE Unpack(specifier \in {"d", "D"}, data_item.size, data_item.raw)
             spec == IF specifier \in {"d", "D"} THEN "d"
                     ELSE IF specifier = "U" THEN "u"
                     ELSE IF specifier = "O" THEN "o"
                     ELSE specifier
         IN  [formatted |-> TRUE, number |-> number, specifier |-> spec, msg |-> << >>]

\* The integer items: sizes 0, 1, 2, 4 and 8, with the smallest and the
\* largest values and those around the sign bit
IntegerItems ==
    {[t |-> t, size |-> 0, raw |-> 0] : t \in {0, 1}}
    \cup UNION {{[t |-> 0, size |-> sz, raw |-> v] :
                    v \in {0, 1, Pow2(sz * ByteBits - 1) - 1, Pow2(sz * ByteBits - 1),
                           Pow2(sz * ByteBits) - 1}} : sz \in {1, 2, 4, 8}}

NoFormat == <<"none">>
NoInteger == [specifier |-> "none"]

RmInit ==
    /\ rm_format = NoFormat
    /\ rm_data = << >>
    /\ rm_msg = << >>
    /\ int_in = NoInteger
    /\ int_out = NoInteger

RmIdle == RmInit

\* One call of RecreateMsgFromFmtStringAndData
Recreate ==
    /\ rm_format = NoFormat
    /\ \E format_str \in FormatStrings, data \in DataLists :
         /\ rm_format' = format_str
         /\ rm_data' = data
         /\ rm_msg' = RecreateMsgFromFmtStringAndData(format_str, data)
    /\ UNCHANGED <<int_in, int_out>>
    /\ UNCHANGED notRm

\* One call of _handle_integer
HandleInteger ==
    /\ int_in = NoInteger
    /\ \E specifier \in IntegerSpecifiers, data_item \in IntegerItems :
         /\ int_in' = [specifier |-> specifier, data_item |-> data_item]
         /\ int_out' = handle_integer(specifier, data_item)
    /\ UNCHANGED <<rm_format, rm_data, rm_msg>>
    /\ UNCHANGED notRm

-----------------------------------------------------------------------------
(* The alternate uuidtext of a tracepoint, named by a raw 16-byte UUID      *)
(* (tracev3_file.py, lines 629-656).  None of these UUIDs is among the      *)
(* file objects of the catalog (line 635: "likely will not find it here!"). *)

\* Tracepoints with a raw alternate UUID in one file
MaxAlternates == 3

AltUuids == {"D4", "E5", "F6"}

NoAlternate == [uuid |-> "none"]
\* None, where a Uuidtext object could stand
NoObject == [py |-> "None", parsed |-> FALSE]

\* is the object found for a UUID taken as there ('if not ut', 'if ut')?
\* None is not; a Uuidtext object is, whatever its Parse() returned
Truthy(ut) == ut # NoObject

\* self.other_uuidtext.get(file_path, None); a UUID that is no key of
\* the dictionary has NoObject in the model
OtherUuidtextGet(file_path) == other_uuidtext[file_path]

\* self.other_uuidtext = {} (line 79)
NoOtherUuidtext == [u \in AltUuids |-> NoObject]

OuInit ==
    /\ alt_disk \in [AltUuids -> BOOLEAN]
    /\ other_uuidtext = NoOtherUuidtext
    /\ alt_parsed = [u \in AltUuids |-> 0]
    /\ alt_last = NoAlternate
    /\ alt_count = 0

OuIdle ==
    /\ alt_disk = [u \in AltUuids |-> FALSE]
    /\ other_uuidtext = NoOtherUuidtext
    /\ alt_parsed = [u \in AltUuids |-> 0]
    /\ alt_last = NoAlternate
    /\ alt_count = 0

\* TraceV3.__init__ (line 79) for the next tracev3 file
NewOtherUuidtext ==
    /\ alt_count > 0
    /\ other_uuidtext' = NoOtherUuidtext
    /\ alt_parsed' = [u \in AltUuids |-> 0]
    /\ alt_last' = NoAlternate
    /\ alt_count' = 0
    /\ UNCHANGED <<alt_disk, notOu>>

\* Lines 629-656 for a tracepoint with has_msg_in_uuidtext and a raw
\* alternate UUID: used tells whether ReadFmtStringFromVirtualOffset of an
\* object was called (line 650), ut is that object
AlternateUuid ==
    /\ alt_count < MaxAlternates
    /\ \E file_path \in AltUuids :
         LET found == OtherUuidtextGet(file_path)                       \* line 640
             new == [py |-> "Uuidtext", parsed |-> alt_disk[file_path]]                    \* line 644
             ut == IF Truthy(found) THEN found
                   ELSE IF new.parsed THEN new ELSE NoObject             \* lines 646-647
         IN  /\ other_uuidtext' = IF Truthy(found) THEN other_uuidtext
                                  ELSE [other_uuidtext EXCEPT ![file_path] = new]   \* line 645
             /\ alt_parsed' = IF Truthy(found) THEN alt_parsed
                              ELSE [alt_parsed EXCEPT ![file_path] = @ + 1]
             /\ alt_last' = [uuid |-> file_path, used |-> Truthy(ut), ut |-> ut,
                             first |-> ~Truthy(found)]
    /\ alt_count' = alt_count + 1
    /\ UNCHANGED <<alt_disk, notOu>>

-----------------------------------------------------------------------------
(* The four loops of a parse with their cursors: the chunk loop of          *)
(* _ParseFileObject (lines 340-378), the block loop of _DecompressChunkData *)
(* (lines 100-113), the loop of ProcessDataChunk (lines 1602-1651) and the  *)
(* tracepoint loop of _ParseFirehoseChunkData (lines 416-434).  The size    *)
(* fields are what the file holds: any value, 0 among them.  An exception   *)
(* leaves all loops at once.                                                *)

\* Turns of the four loops together in one parse; no parse of the files
\* below comes to it (TurnsBelowMax)
MaxTurns == 30

\* Values of self._file_size, from the end of the header chunk on
LoopFileSizes == {HeaderEnd, HeaderEnd + 8, HeaderEnd + 16, HeaderEnd + 40}

\* Values of compressed_size and uncompressed_size of a block
BlockSizes == {0, 4}

\* Values of the length of the decompressed data of a chunk
LoopSubSizes == {0, 17, 40, 64}

\* Values of data_size of a sub-chunk
SubDataSizes == {0, 8, 20}

\* The first four bytes of a block, "other" for any other value and for
\* the bytes past the end of the data
CompHeaders == {"bv41", "bv4-", "bv4$", "other"}

\* Line 372 after lines 366-367: pos after a chunk
NextPos(p, chunk_data_size) == p + 16 + QwordAligned(chunk_data_size)

\* Lines 104 and 109 with the 12 and the 8 bytes of the block header left
\* out
NextCompStartOfBody(comp_header, c, size) == c + size

\* Lines 104 and 109: comp_start after a block
NextCompStart(comp_header, c, size) ==
    IF comp_header = "bv41" THEN c + 12 + size ELSE c + 8 + size

\* Lines 1604-1651: pos after a sub-chunk whose header starts at p.  The
\* padding of a firehose sub-chunk is added only when a NUL byte follows
\* (pad).
NextSubPos(p, data_size, pad) ==
    LET start_skew == (p + 16) % 8
        end_pos == p + 16 + data_size
    IN  IF (end_pos - start_skew) % 8 # 0 /\ pad
        THEN end_pos + 8 - ((end_pos - start_skew) % 8)
        ELSE end_pos

LpInit ==
    /\ lp_pc = "top"
    /\ lp_file_size \in LoopFileSizes
    /\ lp_pos = HeaderEnd
    /\ lp_chunk_data_size = 0
    /\ lp_data_len = 0
    /\ lp_comp_start = 0
    /\ lp_sub_size = 0
    /\ lp_sub_pos = 0
    /\ lp_data_size = 0
    /\ lp_logs_end = 0
    /\ lp_pos2 = 0
    /\ lp_zero = {}
    /\ lp_turns = 0

LpIdle ==
    /\ lp_pc = "returned"
    /\ lp_file_size = 0
    /\ lp_pos = 0
    /\ lp_chunk_data_size = 0
    /\ lp_data_len = 0
    /\ lp_comp_start = 0
    /\ lp_sub_size = 0
    /\ lp_sub_pos = 0
    /\ lp_data_size = 0
    /\ lp_logs_end = 0
    /\ lp_pos2 = 0
    /\ lp_zero = {}
    /\ lp_turns = 0

topLocals == <<lp_file_size, lp_pos, lp_chunk_data_size>>
lz4Locals == <<lp_data_len, lp_comp_start>>
subLocals == <<lp_sub_size, lp_sub_pos, lp_data_size>>
tpLocals == <<lp_logs_end, lp_pos2>>

\* A size field of 0 was read in a loop
SawSize(loop, size) == lp_zero' = IF size = 0 THEN lp_zero \cup {loop} ELSE lp_zero

\* An exception leaves the loops; Parse catches it or lets it pass (lines
\* 1699-1701)
LoopRaises ==
    /\ lp_pc' = "raised"
    /\ UNCHANGED <<topLocals, lz4Locals, subLocals, tpLocals>>

\* Lines 340-372: a turn of the chunk loop, up to the block loop for a
\* compressed chunk, to its end for any other.  A header of fewer than 16
\* bytes raises struct.error (line 343).
ChunkTurn ==
    /\ lp_turns < MaxTurns
    /\ lp_turns' = lp_turns + 1
    /\ lp_pc = "top" /\ lp_pos < lp_file_size
    /\ IF lp_file_size - lp_pos < 16
       THEN LoopRaises /\ UNCHANGED lp_zero
       ELSE \E tag \in ChunkTags, chunk_data_size \in ChunkDataSizes,
               known \in BOOLEAN, raises \in BOOLEAN :
              /\ SawSize("top", chunk_data_size)
              /\ IF tag = 24589 /\ known              \* 0x600D, 'bv41' or 'bv4-'
                 THEN /\ lp_pc' = "lz4"
                      /\ lp_chunk_data_size' = chunk_data_size
                      /\ lp_data_len' = chunk_data_size
                      /\ lp_comp_start' = 0
                      /\ UNCHANGED <<lp_file_size, lp_pos, subLocals, tpLocals>>
                 ELSE IF tag = 24589                   \* no data: lines 114-115
                 THEN /\ lp_pc' = "sub"
                      /\ lp_chunk_data_size' = chunk_data_size
                      /\ lp_sub_size' = 0
                      /\ lp_sub_pos' = 0
                      /\ UNCHANGED <<lp_file_size, lp_pos, lz4Locals, lp_data_size, tpLocals>>
                 ELSE IF tag = 24587 /\ raises         \* 0x600B: _ParseMetaChunk
                 THEN /\ lp_pc' = "raised"
                      /\ UNCHANGED <<topLocals, lz4Locals, subLocals, tpLocals>>
                 ELSE /\ lp_pc' = "top"
                      /\ lp_pos' = NextPos(lp_pos, chunk_data_size)
                      /\ UNCHANGED <<lp_file_size, lp_chunk_data_size, lz4Locals,
                                     subLocals, tpLocals>>
    /\ UNCHANGED notLp

\* Line 340: the chunk loop ends and _ParseFileObject returns
ChunkLoopEnds ==
    /\ lp_pc = "top" /\ lp_pos >= lp_file_size
    /\ lp_pc' = "returned"
    /\ UNCHANGED <<topLocals, lz4Locals, subLocals, tpLocals, lp_zero, lp_turns, notLp>>

\* The block loop is left: _DecompressChunkData returns what it has and
\* ProcessDataChunk starts on it (lines 355-360, 1600-1601)
ToProcessDataChunk(uncompressed_sizes) ==
    /\ lp_pc' = "sub"
    /\ lp_sub_size' \in uncompressed_sizes
    /\ lp_sub_pos' = 0
    /\ lp_data_len' = 0
    /\ lp_comp_start' = 0
    /\ UNCHANGED <<topLocals, lp_data_size, tpLocals, lp_zero>>

\* Lines 100-113: a turn of the block loop.  The sizes of a block whose 8
\* or 12 header bytes are not all there give struct.error, and
\* lz4.block.decompress raises on bad data.
BlockTurn ==
    /\ lp_turns < MaxTurns
    /\ lp_turns' = lp_turns + 1
    /\ lp_pc = "lz4" /\ lp_data_len > lp_comp_start
    /\ \E comp_header \in CompHeaders, size \in BlockSizes, raises \in BOOLEAN :
         IF comp_header = "bv4$"                       \* line 100
         THEN ToProcessDataChunk(LoopSubSizes)
         ELSE IF comp_header = "other"                 \* lines 110-112
         THEN ToProcessDataChunk(LoopSubSizes)
         ELSE IF raises
         THEN LoopRaises /\ UNCHANGED lp_zero
         ELSE /\ lp_comp_start' = NextCompStart(comp_header, lp_comp_start, size)
              /\ SawSize("lz4", size)
              /\ lp_pc' = "lz4"
              /\ UNCHANGED <<topLocals, lp_data_len, subLocals, tpLocals>>
    /\ UNCHANGED notLp

\* Line 100: comp_start has reached data_len
BlockLoopEnds ==
    /\ lp_pc = "lz4" /\ lp_data_len <= lp_comp_start
    /\ ToProcessDataChunk(LoopSubSizes)
    /\ UNCHANGED <<lp_turns, notLp>>

\* Lines 1602-1651: a turn of the loop of ProcessDataChunk, up to the
\* tracepoint loop for a firehose sub-chunk (lines 399-415), to its end for
\* any other.  Headers that are cut short, a process that is not found and
\* the decoders of the sub-chunks raise.
SubChunkTurn ==
    /\ lp_turns < MaxTurns
    /\ lp_turns' = lp_turns + 1
    /\ lp_pc = "sub" /\ lp_sub_pos + 16 < lp_sub_size
    /\ \E firehose \in BOOLEAN, data_size \in SubDataSizes, raises \in BOOLEAN :
         IF raises
         THEN LoopRaises /\ UNCHANGED lp_zero
         ELSE /\ SawSize("sub", data_size)
              /\ IF firehose
                 THEN /\ lp_pc' = "tp"
                      /\ lp_data_size' = data_size
                      /\ lp_logs_end' \in LogsEndOffsets
                      /\ lp_pos2' = 32
                      /\ UNCHANGED <<topLocals, lz4Locals, lp_sub_size, lp_sub_pos>>
                 ELSE /\ lp_pc' = "sub"
                      /\ lp_sub_pos' = NextSubPos(lp_sub_pos, data_size, TRUE)
                      /\ UNCHANGED <<topLocals, lz4Locals, lp_sub_size, lp_data_size,
                                     tpLocals>>
    /\ UNCHANGED notLp

\* Line 1602: the loop of ProcessDataChunk ends; lines 362-372 end the turn
\* of the chunk loop
SubChunkLoopEnds ==
    /\ lp_pc = "sub" /\ ~(lp_sub_pos + 16 < lp_sub_size)
    /\ lp_pc' = "top"
    /\ lp_pos' = NextPos(lp_pos, lp_chunk_data_size)
    /\ lp_chunk_data_size' = 0
    /\ lp_sub_size' = 0
    /\ lp_sub_pos' = 0
    /\ UNCHANGED <<lp_file_size, lz4Locals, lp_data_size, tpLocals, lp_zero, lp_turns, notLp>>

\* Lines 416-434: a turn of the tracepoint loop.  A tracepoint of fewer
\* than 24 bytes raises struct.error (line 462), and so do the exceptions
\* that _ParseFirehoseTracepointData raises again (lines 775-776).
TracepointTurn ==
    /\ lp_turns < MaxTurns
    /\ lp_turns' = lp_turns + 1
    /\ lp_pc = "tp" /\ lp_pos2 < lp_logs_end
    /\ \E log_data_len \in LogDataLens, raises \in BOOLEAN :
         IF raises
         THEN LoopRaises /\ UNCHANGED lp_zero
         ELSE /\ lp_pos2' = NextPos2(lp_pos2, TracepointDataSize(log_data_len))
              /\ SawSize("tp", log_data_len)
              /\ lp_pc' = "tp"
              /\ UNCHANGED <<topLocals, lz4Locals, subLocals, lp_logs_end>>
    /\ UNCHANGED notLp

\* Line 416: the tracepoint loop ends; lines 1638-1649 end the turn of the
\* loop of ProcessDataChunk
TracepointLoopEnds ==
    /\ lp_pc = "tp" /\ lp_pos2 >= lp_logs_end
    /\ \E pad \in BOOLEAN :
         lp_sub_pos' = NextSubPos(lp_sub_pos, lp_data_size, pad)
    /\ lp_pc' = "sub"
    /\ lp_data_size' = 0
    /\ lp_logs_end' = 0
    /\ lp_pos2' = 0
    /\ UNCHANGED <<topLocals, lz4Locals, lp_sub_size, lp_zero, lp_turns, notLp>>

-----------------------------------------------------------------------------
(* Specifications.                                                         *)

\* The dsc parser and its lookup
InitDsc == DscInit /\ TsIdle /\ LvlIdle /\ TrIdle /\ TpIdle /\ DcIdle /\ RcIdle /\ FlIdle /\ FrIdle /\ RmIdle /\ OuIdle /\ LpIdle
NextDsc == DscParse \/ DscFind
SpecDsc == InitDsc /\ [][NextDsc]_vars

\* The timesync lookup on every sorted list
InitTimesync == TsInit /\ DscInit /\ LvlIdle /\ TrIdle /\ TpIdle /\ DcIdle /\ RcIdle /\ FlIdle /\ FrIdle /\ RmIdle /\ OuIdle /\ LpIdle
NextTimesync == FindClosest
SpecTimesync == InitTimesync /\ [][NextTimesync]_vars

\* The level derivation on every pair of header bytes
InitLevel == LvlInit /\ DscInit /\ TsIdle /\ TrIdle /\ TpIdle /\ DcIdle /\ RcIdle /\ FlIdle /\ FrIdle /\ RmIdle /\ OuIdle /\ LpIdle
NextLevel == DeriveLevel
SpecLevel == InitLevel /\ [][NextLevel]_vars

\* Reading a folder of tracev3 files
Init == TrInit /\ DscInit /\ TsIdle /\ LvlIdle /\ TpIdle /\ DcIdle /\ RcIdle /\ FlIdle /\ FrIdle /\ RmIdle /\ OuIdle /\ LpIdle
Next == \/ SkipEntry
        \/ StartFile
        \/ TopChunk
        \/ SubChunk
        \/ Tracepoint
        \/ EndOfFirehose
        \/ EndOfDataChunk
        \/ EndOfFile
Spec == Init /\ [][Next]_vars

\* The decoder of a firehose tracepoint and where its format string is from
InitFormat == TpInit /\ DscParsed /\ TsIdle /\ LvlIdle /\ TrIdle /\ DcIdle /\ RcIdle /\ FlIdle /\ FrIdle /\ RmIdle /\ OuIdle /\ LpIdle
NextFormat == TpFormat
SpecFormat == InitFormat /\ [][NextFormat]_vars

\* Oversize chunks and the tracepoints that refer to them, file after file
InitOversize == TpInit /\ DscParsed /\ TsIdle /\ LvlIdle /\ TrIdle /\ DcIdle /\ RcIdle /\ FlIdle /\ FrIdle /\ RmIdle /\ OuIdle /\ LpIdle
NextOversize == NewTraceV3 \/ Oversize \/ TpOversize
SpecOversize == InitOversize /\ [][NextOversize]_vars

\* The decoder on tracepoints with log data and private strings
InitMessage == TpInit /\ DscParsed /\ TsIdle /\ LvlIdle /\ TrIdle /\ DcIdle /\ RcIdle /\ FlIdle /\ FrIdle /\ RmIdle /\ OuIdle /\ LpIdle
NextMessage == TpMessage
SpecMessage == InitMessage /\ [][NextMessage]_vars

\* The decompressor on every chunk of at most MaxBlocks blocks
InitDecompress == DcInit /\ DscInit /\ TsIdle /\ LvlIdle /\ TrIdle /\ TpIdle /\ RcIdle /\ FlIdle /\ FrIdle /\ RmIdle /\ OuIdle /\ LpIdle
NextDecompress == \/ DecompressEnter
                  \/ DecompressBv41
                  \/ DecompressRaw
                  \/ DecompressUnknown
                  \/ DecompressEnd
SpecDecompress == InitDecompress /\ [][NextDecompress]_vars

\* The reader: ReadDscFiles, then tracev3 files and the files their catalogs name
InitCache == RcInit /\ DscInit /\ TsIdle /\ LvlIdle /\ TrIdle /\ TpIdle /\ DcIdle /\ FlIdle /\ FrIdle /\ RmIdle /\ OuIdle /\ LpIdle
NextCache == ReadDscFiles \/ ReadTraceV3File \/ ProcessReferencedFile
SpecCache == InitCache /\ [][NextCache]_vars

\* The optional fields of every tracepoint
InitFields == FlInit /\ DscInit /\ TsIdle /\ LvlIdle /\ TrIdle /\ TpIdle /\ DcIdle /\ RcIdle /\ FrIdle /\ RmIdle /\ OuIdle /\ LpIdle
NextFields == ReadFields
SpecFields == InitFields /\ [][NextFields]_vars

\* The chunk loop on chunks of every tag and size
InitFramer == FrInit /\ DscInit /\ TsIdle /\ LvlIdle /\ TrIdle /\ TpIdle /\ DcIdle /\ RcIdle /\ FlIdle /\ RmIdle /\ OuIdle /\ LpIdle
NextFramer == FrameChunk
SpecFramer == InitFramer /\ [][NextFramer]_vars

\* Message rendering: calls of RecreateMsgFromFmtStringAndData
InitRecreate == RmInit /\ DscInit /\ TsIdle /\ LvlIdle /\ TrIdle /\ TpIdle /\ DcIdle /\ RcIdle /\ FlIdle /\ FrIdle /\ OuIdle /\ LpIdle
NextRecreate == Recreate
SpecRecreate == InitRecreate /\ [][NextRecreate]_vars

\* Integer rendering: calls of _handle_integer
InitInteger == RmInit /\ DscInit /\ TsIdle /\ LvlIdle /\ TrIdle /\ TpIdle /\ DcIdle /\ RcIdle /\ FlIdle /\ FrIdle /\ OuIdle /\ LpIdle
NextInteger == HandleInteger
SpecInteger == InitInteger /\ [][NextInteger]_vars

\* The alternate uuidtext files of the tracepoints of tracev3 files
InitAlternate == OuInit /\ DscInit /\ TsIdle /\ LvlIdle /\ TrIdle /\ TpIdle /\ DcIdle /\ RcIdle /\ FlIdle /\ FrIdle /\ RmIdle /\ LpIdle
NextAlternate == NewOtherUuidtext \/ AlternateUuid
SpecAlternate == InitAlternate /\ [][NextAlternate]_vars

\* The loops of a parse.  The parse is one thread that never waits: a step
\* that can be taken is taken.
InitLoops == LpInit /\ DscInit /\ TsIdle /\ LvlIdle /\ TrIdle /\ TpIdle /\ DcIdle /\ RcIdle /\ FlIdle /\ FrIdle /\ RmIdle /\ OuIdle
NextLoops == \/ ChunkTurn
             \/ ChunkLoopEnds
             \/ BlockTurn
             \/ BlockLoopEnds
             \/ SubChunkTurn
             \/ SubChunkLoopEnds
             \/ TracepointTurn
             \/ TracepointLoopEnds
SpecLoops == InitLoops /\ [][NextLoops]_vars /\ WF_vars(NextLoops)

-----------------------------------------------------------------------------
(* Claims about the dsc parser, checked under SpecDsc.                     *)

\* The range entries that contain the offset v
RangesContaining(v) ==
    { range_entries[k] : k \in { j \in DOMAIN range_entries :
          /\ range_entries[j].v_off <= v
          /\ v < range_entries[j].v_off + range_entries[j].data_len } }

\* C1 (as claimed): on a parsed dsc whose range entries all name an existing
\* uuid entry, FindVirtualOffsetEntries(v) returns a range entry that
\* contains v, with the uuid entry it names, whenever some range entry
\* contains v, and (None, None) when none does.
C1_FindReturnsContainingRange ==
    ( /\ dsc_result = "True"
      /\ find_v >= 0
      /\ \A k \in DOMAIN range_entries :
            range_entries[k].uuid_index < Len(uuid_entries) )
    => IF RangesContaining(find_v) # {}
       THEN /\ find_result.exc = "none"
            /\ find_result.range_entry \in RangesContaining(find_v)
            /\ find_result.uuid_entry =
                 uuid_entries[find_result.range_entry.uuid_index + 1]
       ELSE /\ find_result.exc = "none"
            /\ find_result.range_entry = NoRangeEntry
            /\ find_result.uuid_entry = NoUuidEntry

\* C2 (as claimed): in a dsc that Parse accepted, the range entries in v_off
\* order are strictly increasing in v_off and each ends no later than the
\* next one starts.
C2_RangesOrderedNonOverlapping ==
    dsc_result = "True" =>
      \A i \in 1..(Len(range_entry_offsets) - 1) :
         LET a == range_entries[range_entry_offsets[i]]
             b == range_entries[range_entry_offsets[i + 1]]
         IN  /\ a.v_off < b.v_off
             /\ a.v_off + a.data_len <= b.v_off

-----------------------------------------------------------------------------
(* Claims about the timesync lookup, checked under SpecTimesync.           *)

Max(S) == CHOOSE x \in S : \A y \in S : x >= y

\* Places of the items of ts_items at or before the continuous time ct
AtOrBefore(ct) == { i \in 1..Len(ts_items) : ts_items[i].continuousTime <= ct }

\* C3: on a non-empty list sorted by continuous time the lookup returns the
\* last item whose continuousTime is <= ct, and the first item of the list
\* when ct is smaller than every item's continuousTime.
C3_ClosestIsLastAtOrBefore ==
    (closest_ct >= 0 /\ ts_items # << >>) =>
        closest_tsi = IF AtOrBefore(closest_ct) = {}
                      THEN ts_items[1]
                      ELSE ts_items[Max(AtOrBefore(closest_ct))]

\* A lookup that returned the middle one of three items
C3_Witness ==
    /\ closest_ct >= 0
    /\ Len(ts_items) = 3
    /\ closest_tsi = ts_items[2]
    /\ ts_items[3].continuousTime > closest_ct
    /\ ts_items[2].continuousTime <= closest_ct

-----------------------------------------------------------------------------
(* Claims about the level derivation, checked under SpecLevel.             *)

\* The level table of the claim; signpost_level is the level it gives to
\* logtype 0x80..0xFF.
LevelTable(logtype, record_type, signpost_level) ==
    CASE logtype \in 128..255 -> signpost_level
      [] logtype = 1 /\ record_type % 16 = 2 -> "Activity"
      [] logtype = 1 /\ record_type % 16 # 2 -> "Info"
      [] logtype = 2 -> "Debug"
      [] logtype = 16 -> "Error"
      [] logtype = 17 -> "Fault"
      [] OTHER -> "Default"

-----------------------------------------------------------------------------
(* Claims about reading tracev3 files, checked under Spec.                 *)

RECURSIVE Flatten(_)
\* The records of a sequence of batches, in the order they were handed over
Flatten(bs) == IF bs = << >> THEN << >> ELSE Head(bs).recs \o Flatten(Tail(bs))

\* The records log_list_process_func has got from the file, in emission order
Emitted == Flatten(batches)

\* The exact value of I.stamp + (ct - I.continuous_time) * I.numerator /
\* I.denominator, as a fraction
ExactWallClock(I, ct) ==
    [num |-> I.time_stamp * I.ts_denominator
               + (ct - I.continuousTime) * I.ts_numerator,
     den |-> I.ts_denominator]

SameNumber(x, y) == x.num * y.den = y.num * x.den

\* C4: the wall-clock time of every emitted firehose record equals
\* I.stamp + (ct - I.continuous_time) * I.numerator / I.denominator for an
\* item I of the file's boot with I.continuous_time <= ct such that no item J
\* of that boot has I.continuous_time < J.continuous_time <= ct.
C4_WallClockFromClosestItem ==
    \A k \in DOMAIN Emitted :
        Emitted[k].kind = "firehose" =>
            \E i \in DOMAIN boot_uuid_ts_list :
                LET I == boot_uuid_ts_list[i]
                IN  /\ I.continuousTime <= Emitted[k].ct
                    /\ SameNumber(Emitted[k].time, ExactWallClock(I, Emitted[k].ct))
                    /\ ~ \E j \in DOMAIN boot_uuid_ts_list :
                           /\ I.continuousTime < boot_uuid_ts_list[j].continuousTime
                           /\ boot_uuid_ts_list[j].continuousTime <= Emitted[k].ct

\* C5 (as claimed): the records emitted from a file are in non-decreasing
\* continuous time.
C5_EmittedInContinuousTimeOrder ==
    \A i, j \in DOMAIN Emitted : i < j => Emitted[i].ct <= Emitted[j].ct

\* C5 (amended): the records emitted from a file are in the order in which
\* they were decoded from it (chunk by chunk, sub-chunk by sub-chunk,
\* tracepoint by tracepoint); nothing reorders them by continuous time.
C5_EmittedInDecodeOrder ==
    /\ Len(Emitted) <= Len(decoded)
    /\ \A i \in DOMAIN Emitted : Emitted[i] = decoded[i]

\* Two records were emitted, the later one with the smaller continuous time
C5_Witness ==
    /\ Len(Emitted) >= 2
    /\ Emitted[1].ct > Emitted[2].ct
    /\ Emitted[1].kind = "firehose"

\* C6: after each top-level chunk the pending list is handed over and emptied
\* whenever it holds more than BatchLimit records (and only then), at end of
\* file a non-empty remainder is handed over, and every record decoded from a
\* file parsed to its end has reached the callback exactly once, in decode
\* order.
C6_Batching ==
    /\ pc = "top" => Len(logs) <= BatchLimit
    /\ \A k \in DOMAIN batches :
         /\ batches[k].at = "chunk" => Len(batches[k].recs) > BatchLimit
         /\ batches[k].at = "eof" => /\ Len(batches[k].recs) > 0
                                     /\ k = Len(batches)
                                     /\ parse_result = "None"
    /\ pc # "idle" => Emitted \o logs = decoded
    /\ parse_result = "None" => Emitted = decoded

\* A file parsed to its end that gave one batch after a chunk and the
\* remainder at end of file
C6_Witness ==
    /\ parse_result = "None"
    /\ Len(batches) = 2
    /\ batches[1].at = "chunk"
    /\ batches[2].at = "eof"

\* C7: a file that fails with a wrong tag, an unsupported subtag, a missing
\* timesync or a decompression failure is given up without the error leaving
\* TraceV3.Parse, so the reader goes on with the remaining files.
C7_FatalToFileOnly ==
    last_cause \in {"tag", "subtag", "timesync", "decompress"} =>
        /\ parse_result = "False"
        /\ reader_exc = "none"

\* C8: Parse returns True for a file parsed to its end without error and
\* False otherwise, and is_valid is False only when there was a problem.
C8_ParseResult ==
    (pc = "idle" /\ parse_result # "unset") =>
        /\ parse_result = (IF last_cause = "none" THEN "True" ELSE "False")
        /\ last_cause = "none" => is_valid

\* The cursor after a tracepoint that started at p with the given
\* log_data_len: 24 + log_data_len further, then up to the 8-byte skew of p
CursorAfter(p, log_data_len) ==
    CHOOSE q \in (p + 24 + log_data_len)..(p + 24 + log_data_len + 7) :
        (q - p) % 8 = 0

\* C9 (as claimed): when the decoding of a tracepoint raises any exception,
\* no record is emitted for it, the cursor advances by 24 + log_data_len
\* and the padding, and the tracepoint loop goes on.
C9_AnyExceptionContained ==
    [][ (pc = "tp" /\ pos2 < logs_end_offset /\ tp_last'.exc # "none") =>
            /\ pc' = "tp"
            /\ logs' = logs /\ decoded' = decoded
            /\ pos2' = CursorAfter(pos2, tp_last'.len) ]_vars

\* C9 (amended): when an exception other than ImportError, NameError and
\* UnboundLocalError is raised inside the try block of the tracepoint
\* decoder (after the 24-byte header was unpacked and the wall-clock time
\* computed), no record is emitted for it, the cursor advances by
\* 24 + log_data_len and the padding, and the tracepoint loop goes on.
C9_CaughtExceptionContained ==
    [][ (/\ pc = "tp" /\ pos2 < logs_end_offset
         /\ tp_last'.where = "try"
         /\ tp_last'.exc \notin {"none", "ImportError", "NameError",
                                 "UnboundLocalError"}) =>
            /\ pc' = "tp"
            /\ logs' = logs /\ decoded' = decoded
            /\ pos2' = CursorAfter(pos2, tp_last'.len) ]_vars

\* The first tracepoint of a firehose chunk (log_data_len 4) was skipped on
\* a KeyError and another tracepoint follows
C9_Witness ==
    /\ pc = "tp"
    /\ tp_last = [len |-> 4, exc |-> "KeyError", where |-> "try"]
    /\ pos2 = 64
    /\ pos2 < logs_end_offset

-----------------------------------------------------------------------------
(* Claims about the decoder of a firehose tracepoint                       *)

HasFlag(mask) == tp_in # NoTpIn /\ BitAnd(tp_in.flags, mask) # 0
NoFlag(mask) == tp_in # NoTpIn /\ BitAnd(tp_in.flags, mask) = 0

\* The format string the tables hold for the offset of the tracepoint
StringOf(strings) ==
    IF ~tp_in.fmt_str_v_offset.high /\ tp_in.fmt_str_v_offset.low \in DOMAIN strings
    THEN strings[tp_in.fmt_str_v_offset.low]
    ELSE <<"no such string">>

\* Can the dsc of the process tell the format string of the tracepoint?
DscLookupFinds ==
    \/ NoFmtStr(tp_in.fmt_str_v_offset)
    \/ ReadFmtStringAndEntriesFromVirtualOffset(tp_in.fmt_str_v_offset).exc = "none"

\* C11: the source of the format string of a tracepoint goes by flag
\* priority.  With bit 0x0002 it is the uuidtext of the process, or the
\* alternate uuidtext when 0x0008 is set too, even if 0x0004 is set; else
\* with bit 0x0004 it is the dsc of the process; else with bit 0x0008 it is
\* what the alternate file reference gave; with none of the three bits a
\* record is still built, with an empty format string.  (The format string
\* meant is format_str after the lines that choose it, 691-731.)
C11_FormatSourceByFlagPriority ==
    /\ (HasFlag(2) /\ NoFlag(8) /\ tp_out.entry) =>
           tp_out.format_sel = StringOf(UtCacheStrings)
    /\ (HasFlag(2) /\ HasFlag(8) /\ tp_out.entry /\ tp_in.alt_found) =>
           tp_out.format_sel = StringOf(AlternateStrings)
    /\ (NoFlag(2) /\ HasFlag(4) /\ tp_out.entry /\ DscLookupFinds) =>
           tp_out.format_sel = (IF NoFmtStr(tp_in.fmt_str_v_offset) THEN <<"%", "s">>
                                ELSE StringOf(DscStrings))
    /\ (NoFlag(2) /\ NoFlag(4) /\ HasFlag(8) /\ tp_out.entry) =>
           tp_out.format_sel = (IF tp_in.alt_found THEN StringOf(AlternateStrings)
                                ELSE ComposeFailure)
    /\ (NoFlag(2) /\ NoFlag(4) /\ NoFlag(8)) =>
           tp_out.entry /\ tp_out.format_sel = << >>

\* A tracepoint with the bits 0x0002 and 0x0004 got the string of the
\* uuidtext of the process
C11_Witness ==
    /\ tp_in # NoTpIn /\ BitAnd(tp_in.flags, 14) = 6
    /\ tp_out.entry
    /\ tp_out.format_sel = <<"ut", "%", "s">>

\* C12: when the format string of a tracepoint is in the dsc (flag 0x0004)
\* and the dsc has no range entry that contains fmt_str_v_offset, the record
\* is built with the format string
\* "<compose failure [missing precomposed log]>".
C12_DscLookupFailureLiteral ==
    (NoFlag(2) /\ HasFlag(4) /\ tp_in.dsc_file_index # -1 /\ ~DscLookupFinds) =>
        /\ tp_out.entry
        /\ tp_out.format_sel = ComposeFailure

\* C13: for every tracepoint whose fmt_str_v_offset has bit 0x80000000
\* set, the format string of the record is "%s", whatever its flags.
C13_HighBitGivesPercentS ==
    (tp_in # NoTpIn /\ NoFmtStr(tp_in.fmt_str_v_offset) /\ tp_out.entry) =>
        tp_out.format_sel = <<"%", "s">>

-----------------------------------------------------------------------------
(* Claims about oversize data                                              *)

\* The oversize chunks parsed so far from this file that carry the
\* (data_ref_id, continuous time) of the tracepoint
SamePair ==
    { i \in 1..Len(ov_seen) : /\ ov_seen[i].data_ref_id = tp_in.data_ref_id
                              /\ ov_seen[i].ct = tp_in.ct }

\* C14: a tracepoint with HAS_OVERSIZE_DATA_REFERENCE takes its log data
\* from the payload of the latest oversize chunk of the same file with its
\* (data_ref_id, continuous time); it never gets the payload of a chunk
\* with another pair (no two pairs share a key), nor one stored while
\* another tracev3 file was parsed.
C14_OversizeJoin ==
    (HasFlag(OversizeFlag) /\ tp_out.entry) =>
        /\ (SamePair # {} /\ ov_seen[Max(SamePair)].buf # EmptyPayload) =>
               /\ tp_out.payload_file = tv_file
               /\ tp_out.log_data =
                      ReadLogDataBuffer(ov_seen[Max(SamePair)].buf, Str(<< >>))
        /\ SamePair = {} => tp_out.payload_file = -1
        /\ tp_out.payload_file \in {-1, tv_file}

-----------------------------------------------------------------------------
(* Claims about the decompressor                                           *)

RECURSIVE BlockOutputs(_, _)
\* The outputs of the first n processed blocks, one after the other
BlockOutputs(blocks, n) ==
    IF n = 0 THEN << >> ELSE BlockOutputs(blocks, n - 1) \o blocks[n].out

\* The blocks of the chunk that stand before its first bv4$ header
BeforeTerminator ==
    IF \E i \in 1..Len(dc_chunk) : dc_chunk[i].header = "bv4$"
    THEN (CHOOSE i \in 1..Len(dc_chunk) :
              /\ dc_chunk[i].header = "bv4$"
              /\ \A j \in 1..(i - 1) : dc_chunk[j].header # "bv4$") - 1
    ELSE Len(dc_chunk)

\* Is the chunk a sequence of bv41 and bv4- blocks up to its terminator?
OnlyKnownBlocks ==
    /\ BeforeTerminator > 0
    /\ \A i \in 1..BeforeTerminator : dc_chunk[i].header \in {"bv41", "bv4-"}

\* C16: every bv41 block is decompressed with the output of the block just
\* before it in the chunk as dictionary (the empty one for the first block);
\* the result is the outputs of the blocks in order; and the blocks
\* processed are those before the first bv4$.
C16_DictionaryIsPreviousBlock ==
    /\ \A i \in 1..Len(dc_blocks) :
           dc_blocks[i].header = "bv41" =>
               dc_blocks[i].dict = IF i = 1 THEN << >> ELSE dc_blocks[i - 1].out
    /\ uncompressed = BlockOutputs(dc_blocks, Len(dc_blocks))
    /\ (dc_pc = "returned" /\ OnlyKnownBlocks) => Len(dc_blocks) = BeforeTerminator

\* The parts of C16 that are not about the dictionary
ConcatenationAndStop ==
    /\ uncompressed = BlockOutputs(dc_blocks, Len(dc_blocks))
    /\ (dc_pc = "returned" /\ OnlyKnownBlocks) => Len(dc_blocks) = BeforeTerminator

-----------------------------------------------------------------------------
(* Claims about the file cache                                             *)

\* C17: with the cache loaded by ReadDscFiles, a UUID of the catalog that is
\* in the cache gets the cached object, looked up as dsc first and then as
\* uuidtext, and nothing is opened and parsed for it; the cache stays as
\* ReadDscFiles left it.
C17_CachedObjectsAreReused ==
    caches.loaded =>
        /\ \A i \in 1..Len(FileObjects) :
               LET o == FileObjects[i]
               IN  /\ o.uuid \in caches.cached_dsc =>
                          o = [uuid |-> o.uuid, kind |-> "dsc", from |-> "cache"]
                   /\ o.uuid \in caches.cached_uuidtext \ caches.cached_dsc =>
                          o = [uuid |-> o.uuid, kind |-> "uuidtext", from |-> "cache"]
        /\ caches = ParseFolder(rc_disk)

\* The part of C17 that is about the cache staying as it was loaded
CacheReadOnly ==
    caches.loaded => caches = ParseFolder(rc_disk)

-----------------------------------------------------------------------------
(* Claims about the signature of a dsc file                                *)

\* C18: Dsc.Parse() on a file that does not start with 'hcsd' returns False
\* and sets is_valid to False; it raises nothing and adds no range entry and
\* no uuid entry.
C18_BadSignatureReturnsFalse ==
    (dsc_result # "unparsed" /\ ~dsc_sig_ok) =>
        /\ dsc_result = "False"
        /\ ~dsc_is_valid
        /\ range_entries = << >>
        /\ uuid_entries = << >>

-----------------------------------------------------------------------------
(* Claims about the message                                                *)

\* Is the only log-data item of the tracepoint a string descriptor of a
\* private type, and its format string "ut%s"?
PrivateItemMatched ==
    /\ tp_in # NoTpIn
    /\ tp_out.entry
    /\ tp_in.buffer \in PrivateBuffers
    /\ tp_out.format_sel = <<"ut", "%", "s">>

\* C19: with an empty or absent private-strings slice, a string descriptor
\* of a private type (0x21, 0x41) that a directive matches is rendered as
\* "<private>", whatever its size.
C19_PrivateWhenNoSlice ==
    (PrivateItemMatched /\ tp_out.strings_slice.v = << >>) =>
        tp_out.log_msg = <<"ut", "<private>">>

\* C19 for descriptors of size 0 only
PrivateWhenSizeZero ==
    (PrivateItemMatched /\ tp_in.buffer.items[1].size = 0) =>
        tp_out.log_msg = <<"ut", "<private>">>

\* C20: in the message of a record, "%%" of the format string is a single
\* "%" and starts no directive, with log-data items or without.
C20_DoublePercent ==
    (tp_in # NoTpIn /\ tp_out.entry) =>
        /\ tp_out.format_sel = <<"ut", "%", "%">> => tp_out.log_msg = <<"ut", "%">>
        /\ tp_out.format_sel = <<"%", "%", "s">> => tp_out.log_msg = <<"%", "s">>

\* C20 for tracepoints that have log-data items
DoublePercentWithItems ==
    (tp_in # NoTpIn /\ tp_out.entry /\ tp_out.log_data # << >>) =>
        /\ tp_out.format_sel = <<"ut", "%", "%">> => tp_out.log_msg = <<"ut", "%">>
        /\ tp_out.format_sel = <<"%", "%", "s">> => tp_out.log_msg = <<"%", "s">>

-----------------------------------------------------------------------------
(* Claims about the optional fields                                        *)

\* The place of name in the sequence order (0: not in it)
PlaceIn(order, name) ==
    IF \E i \in 1..Len(order) : order[i] = name
    THEN CHOOSE i \in 1..Len(order) : order[i] = name
    ELSE 0

\* Are the fields read all in the sequence order, and read in its order?
ReadInOrder(order) ==
    /\ \A i \in 1..Len(fl_read) : PlaceIn(order, fl_read[i]) > 0
    /\ \A i, j \in 1..Len(fl_read) :
           i < j => PlaceIn(order, fl_read[i]) < PlaceIn(order, fl_read[j])

\* The order of the flag table; the field of 0x0200 is the other aid of an
\* activity and the subsystem item_id of any other tracepoint
FlagTableOrder ==
    <<"current_aid", "unique_pid", "other_aid", "item_id", "new_activity_identifier",
      "priv_str_range", "UUID_entry_load_address", "large_offset", "alternate_uuid",
      "ttl", "data_ref_id", "spid_val", "sp_name_ref">>

\* The two orders of the amended claim
ActivityOrder ==
    <<"current_aid", "unique_pid", "other_aid", "new_activity_identifier",
      "UUID_entry_load_address", "large_offset", "alternate_uuid">>
NonActivityOrder ==
    <<"current_aid", "priv_str_range", "UUID_entry_load_address", "large_offset",
      "alternate_uuid", "item_id", "ttl", "data_ref_id", "spid_val", "sp_name_ref">>

\* C21 as stated: for every flag word the fields present are read in the
\* order of the flag table; the subsystem item_id of a tracepoint that is no
\* activity is read before the private-strings range and the load address.
C21_FlagTableOrder ==
    fl_tp # NoFields => ReadInOrder(FlagTableOrder)

\* C21 as amended: the fields of an activity are read in the order current
\* aid, unique pid, other aid, new activity id, load address, large offset,
\* alternate uuid; those of any other tracepoint in the order current aid,
\* private-strings range, load address, large offset, alternate uuid,
\* subsystem item_id, ttl, oversize data reference, signpost id, signpost
\* name reference.
C21_FieldOrderByKind ==
    fl_tp # NoFields =>
        IF IsActivity(fl_tp) THEN ReadInOrder(ActivityOrder)
        ELSE ReadInOrder(NonActivityOrder)

\* A tracepoint that is no activity had a current aid, a private-strings
\* range and a subsystem item_id, and all three were read.
C21_Witness ==
    /\ fl_tp # NoFields
    /\ ~IsActivity(fl_tp)
    /\ \E i, j, k \in 1..Len(fl_read) :
           /\ fl_read[i] = "current_aid"
           /\ fl_read[j] = "priv_str_range"
           /\ fl_read[k] = "item_id"

-----------------------------------------------------------------------------
(* Claims about the position counters                                      *)

\* The least multiple of 8 that is not below n
RoundUp8(n) == ((n + 7) \div 8) * 8

\* The size of the chunk of the last turn in the uncompressed file
SizeInUncompressedFile ==
    16 + (IF fr_chunk.tag = 24589 THEN fr_chunk.uncompressed_size
          ELSE fr_chunk.chunk_data_size)

\* C22: after a top-level chunk the counter of the uncompressed file
\* position has advanced by the size of the chunk (16 + the decompressed
\* size for 0x600D, 16 + data_size otherwise), rounded up to a multiple of 8.
C22_CounterAlignedAfterChunk ==
    fr_count > 0 =>
        uncompressed_file_pos = RoundUp8(fr_before + SizeInUncompressedFile)

\* The part of C22 without the rounding: the counter never advances by less
\* than the size of the chunk, and pos is a multiple of 8 after every chunk
CounterAdvancesAndPosAligned ==
    fr_count > 0 =>
        /\ uncompressed_file_pos >= fr_before + SizeInUncompressedFile
        /\ fr_pos % 8 = 0

-----------------------------------------------------------------------------
(* Claims about the string descriptors                                     *)

\* A tracepoint with the private-strings slice "p" and one string
\* descriptor of size 1, the byte "w" standing after the descriptor table
OneDescriptorDecoded ==
    /\ tp_in # NoTpIn
    /\ tp_out.entry
    /\ tp_out.strings_slice.v = <<"p">>
    /\ tp_in.buffer \in DescriptorBuffers

\* C23: the payload of a string descriptor comes from the private-strings
\* slice exactly for the item types 0x21, 0x25, 0x41, 0x45, 0x31, and from
\* the tracepoint buffer after the descriptor table exactly for 0x20, 0x22,
\* 0x40, 0x42, 0x32, 0xF2.
C23_PayloadSourceByType ==
    OneDescriptorDecoded =>
        LET t == tp_in.buffer.items[1].item_type
        IN  /\ tp_out.log_data[1].raw.v = <<"p">> <=> t \in {33, 37, 65, 69, 49}
            /\ tp_out.log_data[1].raw.v = <<"w">> <=> t \in {32, 34, 64, 66, 50, 242}

\* C23 for all types but 0x25, 0x45 and 0x31
PayloadSourceOfOtherTypes ==
    (OneDescriptorDecoded /\ tp_in.buffer.items[1].item_type \notin {37, 69, 49}) =>
        LET t == tp_in.buffer.items[1].item_type
        IN  /\ tp_out.log_data[1].raw.v = <<"p">> <=> t \in {33, 65}
            /\ tp_out.log_data[1].raw.v = <<"w">> <=> t \in {32, 34, 64, 66, 50, 242}

-----------------------------------------------------------------------------
(* C24: one data item per directive.                                       *)

\* What the i-th item of a data list renders as
RenderedItem(data, i) ==
    IF data[i].raw = Bytes(<<ItemText[i]>>) THEN <<ItemText[i]>> ELSE <<"E-R-R-O-R">>

RECURSIVE MessageFrom(_, _, _, _, _)
\* The message of the characters of format_str from the i-th on, when n
\* items were consumed before them: "%%" is a "%", a directive takes the
\* (n+1)-th item, the first directive without item becomes the marker,
\* and after it (stopped) the directives stay as they are written
MessageFrom(format_str, i, data, n, stopped) ==
    IF i > Len(format_str) THEN << >>
    ELSE IF i < Len(format_str) /\ format_str[i] = "%" /\ format_str[i + 1] = "%"
    THEN <<"%">> \o MessageFrom(format_str, i + 2, data, n, stopped)
    ELSE IF i < Len(format_str) /\ format_str[i] = "%" /\ format_str[i + 1] \in Specifiers
    THEN IF stopped
         THEN <<"%", format_str[i + 1]>> \o MessageFrom(format_str, i + 2, data, n, TRUE)
         ELSE IF n >= Len(data)
         THEN <<"<decode: missing data>">> \o MessageFrom(format_str, i + 2, data, n, TRUE)
         ELSE RenderedItem(data, n + 1) \o MessageFrom(format_str, i + 2, data, n + 1, FALSE)
    ELSE <<format_str[i]>> \o MessageFrom(format_str, i + 1, data, n, stopped)

-----------------------------------------------------------------------------
(* C25: signed and unsigned integers.                                      *)

\* The two's-complement value of the bits of raw in a width of w bits
TwosComplement(raw, w) == IF raw >= Pow2(w - 1) THEN raw - Pow2(w) ELSE raw

\* An item of 1, 4 or 8 bytes went through _handle_integer
IntegerFormatted == int_in # NoInteger /\ int_in.data_item.size \in {1, 4, 8}

\* C25: an integer item of 1, 4 or 8 bytes is read with the signedness C
\* printf gives its specifier: as a two's-complement signed value of that
\* width for d, D and i, as an unsigned value of that width for u, U, x,
\* X, o and O.
C25_SignednessOfPrintf ==
    IntegerFormatted =>
        int_out.number = IF int_in.specifier \in {"d", "D", "i"}
                         THEN TwosComplement(int_in.data_item.raw,
                                             int_in.data_item.size * ByteBits)
                         ELSE int_in.data_item.raw

\* For every specifier but i the number is the one of C printf
SignednessButForI ==
    IntegerFormatted /\ int_in.specifier # "i" =>
        int_out.number = IF int_in.specifier \in {"d", "D"}
                         THEN TwosComplement(int_in.data_item.raw,
                                             int_in.data_item.size * ByteBits)
                         ELSE int_in.data_item.raw

-----------------------------------------------------------------------------
(* C26: a sub-chunk of an unknown process.                                 *)

\* C26: in ProcessDataChunk a sub-chunk whose (proc_id1, proc_id2) has no
\* ProcInfo in the current ChunkMeta is skipped alone: the remaining
\* sub-chunks of the data chunk and the rest of the file are still parsed,
\* so that no file is given up because of such a sub-chunk.
C26_UnknownProcessSkipsOneSubChunk == last_cause # "proc_info"

-----------------------------------------------------------------------------
(* C27: the file objects of a catalog.                                     *)

\* C27: after _ParseMetaChunk, catalog.FileObjects holds one entry per
\* referenced-file UUID of the catalog, in the order of the catalog, also
\* when a referenced file is missing or fails to open or parse, so that an
\* index into the list selects the file of the UUID at that place.
C27_OneFileObjectPerUuid ==
    rc_exc = "none" =>
        /\ Len(FileObjects) = Len(rc_uuids)
        /\ \A i \in 1..Len(FileObjects) : FileObjects[i].uuid = rc_uuids[i]

\* The list holds the files whose Parse() raised nothing, in the order of
\* the catalog
FileObjectsOfFilesParsed ==
    LET kept == SelectSeq(rc_uuids, LAMBDA u : DscParseRaises(rc_disk[u]) = "none")
    IN  /\ Len(FileObjects) = Len(kept)
        /\ \A i \in 1..Len(kept) : FileObjects[i].uuid = kept[i]

-----------------------------------------------------------------------------
(* C28: the alternate uuidtext of a tracepoint.                            *)

\* No uuidtext is opened and parsed twice for one UUID within a file
AlternateParsedOnce == \A u \in AltUuids : alt_parsed[u] <= 1

\* C28: within one tracev3 file an alternate uuidtext named by a raw UUID
\* is opened and parsed at most once, and one whose parse failed is never
\* used for a format string: a later tracepoint that names its UUID is
\* treated as having no uuidtext, like the first.
C28_FailedAlternateIsNeverUsed ==
    /\ AlternateParsedOnce
    /\ alt_last # NoAlternate => (alt_last.used => alt_last.ut.parsed)

\* The first tracepoint that names a UUID uses the uuidtext only when its
\* parse succeeded
FirstUseOnlyWhenParsed ==
    (alt_last # NoAlternate /\ alt_last.first) =>
        (alt_last.used <=> alt_disk[alt_last.uuid])

-----------------------------------------------------------------------------
(* C29: the records pending when a file is given up.                       *)

\* The parse of the file stopped at an error
StoppedAtError == pc = "idle" /\ parse_result \in {"False", "raised"}

\* C29: when the parse of a tracev3 file stops at an error, every record
\* decoded from the file before the error is handed to the batch callback,
\* once; none is left in the pending list and lost.
C29_NoRecordLostAtError == StoppedAtError => Emitted = decoded

\* What is not handed over at an error is what was pending
OnlyPendingLostAtError == StoppedAtError => Emitted \o logs = decoded

-----------------------------------------------------------------------------
(* C30: the loops of a parse end.                                          *)

\* A step that stays in a loop, or comes back to it from the loop inside
\* it, moves the cursor of the loop forward
CursorAdvances ==
    /\ (lp_pc' = "top" /\ lp_pc \in {"top", "sub"}) => lp_pos' > lp_pos
    /\ (lp_pc' = "lz4" /\ lp_pc = "lz4") => lp_comp_start' > lp_comp_start
    /\ (lp_pc' = "sub" /\ lp_pc \in {"sub", "tp"}) => lp_sub_pos' > lp_sub_pos
    /\ (lp_pc' = "tp" /\ lp_pc = "tp") => lp_pos2' > lp_pos2

\* Every turn of a loop advances the cursor or leaves the loop
EveryTurnAdvances == [][CursorAdvances]_vars

\* The bound on the turns stops no parse
TurnsBelowMax == lp_turns < MaxTurns

\* The parse comes to its end: _ParseFileObject returns or an exception
\* leaves it
ParseEnds == <>(lp_pc \in {"returned", "raised"})

\* C30: TraceV3.Parse terminates on every input: each turn of the chunk
\* loop, of the loop of ProcessDataChunk, of the tracepoint loop and of the
\* block loop of _DecompressChunkData moves its cursor forward or leaves
\* the loop, for every value of the size fields read from the file, 0
\* among them.
C30_ParseTerminates == EveryTurnAdvances /\ ParseEnds /\ []TurnsBelowMax

\* A parse that returned after each of the four loops had read a size of 0
C30_Witness ==
    /\ lp_pc = "returned"
    /\ lp_zero = {"top", "lz4", "sub", "tp"}

=============================================================================
